---- MODULE Spec2Model ----
(***************************************************************************)
(* Model of the job scheduler of server/services/transcriptionQueue.js     *)
(* (class TranscriptionQueue): the queue array, the processing Map, the    *)
(* job objects with their status and stage table, the 1 s processQueue     *)
(* tick, the processJob pipeline and cancelJob.                            *)
(*                                                                         *)
(* Granularity.  Node runs each macrotask (a timer tick, an HTTP request,  *)
(* the completion of an I/O call) to the end, microtasks included, before  *)
(* the next one starts.  One action of the model is one macrotask: the     *)
(* code from the event up to the next await on real I/O.  The awaits on    *)
(* updateJobProgress (an async function without await) and the whole       *)
(* diarization stage (no I/O in SpeakerDiarizationService.process) resume  *)
(* within the same macrotask and so are inside the action that reaches     *)
(* them.                                                                   *)
(*                                                                         *)
(* The scheduler (Spec, SpecLive) keeps of each job what decides where it  *)
(* is.  What one job does inside processJob -- every updateJobProgress     *)
(* call with its numbers, every progress callback of a provider, the       *)
(* provider calls of transcribeAudio -- is the variable `run`, advanced    *)
(* call by call under SpecJob for one job that processQueue has started.   *)
(***************************************************************************)
EXTENDS Integers, Sequences, FiniteSets, TLC

\* ------------------------------------------------------------------ bounds
\* number of addJob calls that are explored
MaxJobs == 4
\* largest explicit value of the MAX_CONCURRENT_JOBS environment variable
MaxEnv == 2
\* largest number of transcript segments handed to the diarization stage
MaxSegments == 2
\* largest number of chunks a large file is split into
MaxChunks == 3
\* longest list of segments handed to mergeCloseSegments
MaxMerge == 3
\* longest list of segments handed to smoothSpeakerTransitions
MaxSmooth == 4

\* -------------------------------------------------------- program constants
\* `parseInt(process.env.MAX_CONCURRENT_JOBS) || 3`
DefaultMaxConcurrent == 3

JobIds == 1..MaxJobs
\* 0 stands for an unset (or non-numeric, or "0") variable: parseInt gives
\* NaN or 0, both falsy
EnvValues == 0..MaxEnv

StageNames == {"upload", "processing", "transcription", "diarization", "finalization"}
Terminal == {"completed", "failed", "cancelled"}

VARIABLES
  maxConcurrent,  \* this.maxConcurrent
  queue,          \* this.queue: sequence of job ids, head first
  processing,     \* this.processing: the keys of the Map
  job,            \* the job objects created so far: id -> [status, stages, error]
  pc,             \* where each job's pipeline is suspended
  started,        \* number of processJob invocations per job (history)
  startOrder,     \* job ids in the order processQueue started them (history)
  lastOp,         \* the last call made and what it returned (history)
  effects,        \* per job: the transcription file written and the terminal
                  \* socket events emitted, in order
  run,            \* one job inside processJob, call by call (SpecJob)
  calc            \* one call of a function of the whisper or diarization service
                  \* (SpecPure, SpecCluster)

vars == <<maxConcurrent, queue, processing, job, pc, started, startOrder, lastOp,
          effects, run, calc>>

\* ----------------------------------------------------------------- helpers
Range(s) == {s[i] : i \in 1..Len(s)}

\* constructor: parseInt(process.env.MAX_CONCURRENT_JOBS) || 3
ParseMaxConcurrent(env) == IF env = 0 THEN DefaultMaxConcurrent ELSE env

\* addJob: the job literal
NewJob ==
  [status |-> "queued",
   stages |-> [s \in StageNames |-> IF s = "upload" THEN "completed" ELSE "pending"],
   error |-> "none"]

\* addJob: this.queue.push(job)
Push_Unshift(q, id) == <<id>> \o q
Push(q, id) == Append(q, id)

\* processQueue: the early return of line 79, negated
HasRoom_OffByOne(size, max, qlen) == ~(size > max \/ qlen = 0)
HasRoom(size, max, qlen) == ~(size >= max \/ qlen = 0)

\* processQueue: const job = this.queue.shift() -- <<the job taken, the queue left>>
Shift_Peek(q) == <<Head(q), q>>
Shift_Pop(q) == <<q[Len(q)], SubSeq(q, 1, Len(q) - 1)>>
Shift(q) == <<Head(q), Tail(q)>>

\* processQueue: finally { this.processing.delete(job.id) }
FinallyDelete_Missing(procs, id) == procs
FinallyDelete(procs, id) == procs \ {id}

\* cancelJob: this.queue.findIndex(job => job.id === jobId), 1-based, 0 = -1
FindIndex(q, id) ==
  IF id \in Range(q) THEN CHOOSE i \in 1..Len(q) : q[i] = id /\ \A k \in 1..(i-1) : q[k] # id
  ELSE 0

\* cancelJob: this.processing.get(jobId), as the truth value the `if` tests
ProcessingGet_AnyJob(procs, jobs, id) == id \in 1..Len(jobs)
ProcessingGet(procs, jobs, id) == id \in procs

\* cancelJob: this.queue.splice(queueIndex, 1)
Splice_Off(q, i) == SubSeq(q, 1, i) \o SubSeq(q, i + 2, Len(q))
Splice(q, i) == SubSeq(q, 1, i - 1) \o SubSeq(q, i + 1, Len(q))

\* updateJobProgress: job.stages[stage].status = status
updateJobProgress(jobs, id, stage, st) ==
  [jobs EXCEPT ![id].stages[stage] = st]

\* the messages of the errors the stages throw
ErrAudio == "processAudio failed"
ErrPrimary == "primary provider failed"
ErrFallback == "Whisper transcription failed"
ErrDiarization == "Speaker diarization failed"
ErrSave == "saveTranscription failed"

\* transcribeAudio, lines 200-205: the catch block logs the primary provider's
\* error and awaits the whisper call; when that throws too, its error is the
\* one that leaves transcribeAudio
FallbackError_First(first, second) == first
FallbackError(first, second) == second

\* the error a throw at this point of processJob hands to processQueue's catch
ThrownAt(p) ==
  CASE p = "processing" -> ErrAudio
    [] p = "fallback" -> FallbackError(ErrPrimary, ErrFallback)
    [] p = "finalization" -> ErrSave

\* handleJobError: job.status = 'failed'; job.error = error.message
handleJobError_Swallow(jobs, id, err) == jobs
handleJobError(jobs, id, err) ==
  [jobs EXCEPT ![id].status = "failed", ![id].error = err]

\* what reaches the outside: saveTranscription's file, io.emit('job-completed'),
\* io.emit('job-failed', {error})
Effect(name, err) == [ev |-> name, error |-> err]
Emit(eff, id, e) == [eff EXCEPT ![id] = Append(@, e)]

\* history of the last call of the queue's interface: addJob (returns the id),
\* processQueue (ret: a job was started), cancelJob (ret: its return value).
\* A continuation of the pipeline is no call and leaves NoCall.  Behaviours
\* that start with HistoryOff keep no history at all.
Op(name, id, ret) == [op |-> name, id |-> id, ret |-> ret]
NoCall == Op("none", 0, FALSE)
HistoryOff == Op("off", 0, FALSE)
Record(o) == lastOp' = IF lastOp = HistoryOff THEN HistoryOff ELSE o

\* no job is followed call by call
NoRun == [at |-> "off"]

\* no service function is followed
NoCalc == [fn |-> "off"]

\* -------------------------------------------------------------------- Init
Init ==
  /\ \E env \in EnvValues : maxConcurrent = ParseMaxConcurrent(env)
  /\ queue = <<>>
  /\ processing = {}
  /\ job = <<>>
  /\ pc = [id \in JobIds |-> "none"]
  /\ started = [id \in JobIds |-> 0]
  /\ startOrder = <<>>
  /\ lastOp = NoCall
  /\ effects = [id \in JobIds |-> <<>>]
  /\ run = NoRun
  /\ calc = NoCalc

\* ----------------------------------------------------------------- actions
\* addJob(jobData): uuidv4 yields an id no job has; ids are handed out 1, 2, ...
addJob ==
  /\ Len(job) < MaxJobs
  /\ LET id == Len(job) + 1 IN
       /\ job' = Append(job, NewJob)
       /\ queue' = Push(queue, id)
       /\ pc' = [pc EXCEPT ![id] = "queued"]
       /\ Record(Op("addJob", id, TRUE))
  /\ UNCHANGED <<maxConcurrent, processing, started, startOrder, effects, run, calc>>

\* processQueue(), up to the first await on I/O: guard, shift, set, then
\* processJob's first lines, which mark `processing` in progress and start ffmpeg
processQueue ==
  IF ~HasRoom(Cardinality(processing), maxConcurrent, Len(queue))
  THEN /\ Record(Op("processQueue", 0, FALSE))
       /\ UNCHANGED <<maxConcurrent, queue, processing, job, pc, started, startOrder,
                      effects, run, calc>>
  ELSE LET id == Shift(queue)[1] IN
       /\ queue' = Shift(queue)[2]
       /\ processing' = processing \cup {id}
       /\ job' = updateJobProgress(job, id, "processing", "in_progress")
       /\ pc' = [pc EXCEPT ![id] = "processing"]
       /\ started' = [started EXCEPT ![id] = @ + 1]
       /\ startOrder' = Append(startOrder, id)
       /\ Record(Op("processQueue", id, TRUE))
       /\ UNCHANGED <<maxConcurrent, effects, run, calc>>

\* processAudio resolves (ffmpeg 'end'): processJob goes on to the provider call
processAudioReturns(id) ==
  /\ id \in processing /\ pc[id] = "processing"
  /\ job' = updateJobProgress(
              updateJobProgress(job, id, "processing", "completed"),
              id, "transcription", "in_progress")
  /\ pc' = [pc EXCEPT ![id] = "transcription"]
  /\ Record(NoCall)
  /\ UNCHANGED <<maxConcurrent, queue, processing, started, startOrder, effects, run, calc>>

\* transcribeAudio: the primary provider call throws; the catch block calls whisper
primaryThrows(id) ==
  /\ id \in processing /\ pc[id] = "transcription"
  /\ pc' = [pc EXCEPT ![id] = "fallback"]
  /\ Record(NoCall)
  /\ UNCHANGED <<maxConcurrent, queue, processing, job, started, startOrder,
                 effects, run, calc>>

\* a provider call (primary or fallback) returns: processJob runs the
\* diarization stage, which has no I/O and either returns or throws, and on
\* its return starts saveTranscription
transcribeReturns(id) ==
  /\ id \in processing /\ pc[id] \in {"transcription", "fallback"}
  /\ LET j1 == updateJobProgress(
                 updateJobProgress(job, id, "transcription", "completed"),
                 id, "diarization", "in_progress") IN
     \E diarizationThrows \in BOOLEAN :
       IF diarizationThrows
       THEN /\ job' = handleJobError(j1, id, ErrDiarization)
            /\ effects' = Emit(effects, id, Effect("job-failed", ErrDiarization))
            /\ processing' = FinallyDelete(processing, id)
            /\ pc' = [pc EXCEPT ![id] = "done"]
            /\ Record(NoCall)
       ELSE /\ job' = updateJobProgress(
                        updateJobProgress(j1, id, "diarization", "completed"),
                        id, "finalization", "in_progress")
            /\ pc' = [pc EXCEPT ![id] = "finalization"]
            /\ Record(NoCall)
            /\ UNCHANGED <<processing, effects>>
  /\ UNCHANGED <<maxConcurrent, queue, started, startOrder, run, calc>>

\* processAudio, the fallback provider call or saveTranscription throws:
\* processJob rethrows, processQueue's catch calls handleJobError, finally
\* frees the slot
stageThrows(id) ==
  /\ id \in processing /\ pc[id] \in {"processing", "fallback", "finalization"}
  /\ job' = handleJobError(job, id, ThrownAt(pc[id]))
  /\ effects' = Emit(effects, id, Effect("job-failed", ThrownAt(pc[id])))
  /\ processing' = FinallyDelete(processing, id)
  /\ pc' = [pc EXCEPT ![id] = "done"]
  /\ Record(NoCall)
  /\ UNCHANGED <<maxConcurrent, queue, started, startOrder, run, calc>>

\* saveTranscription resolves (the file is written): finalization completed,
\* job.status = 'completed', io.emit('job-completed')
saveReturns(id) ==
  /\ id \in processing /\ pc[id] = "finalization"
  /\ job' = [updateJobProgress(job, id, "finalization", "completed")
               EXCEPT ![id].status = "completed"]
  /\ effects' = Emit(Emit(effects, id, Effect("saved", "none")),
                     id, Effect("job-completed", "none"))
  /\ processing' = FinallyDelete(processing, id)
  /\ pc' = [pc EXCEPT ![id] = "done"]
  /\ Record(NoCall)
  /\ UNCHANGED <<maxConcurrent, queue, started, startOrder, run, calc>>

\* cancelJob(jobId), for an id of a job or an id no job has
cancelJob(id) ==
  LET queueIndex == FindIndex(queue, id) IN
  IF queueIndex # 0
  THEN /\ queue' = Splice(queue, queueIndex)
       /\ pc' = [pc EXCEPT ![id] = "dropped"]
       /\ Record(Op("cancelJob", id, TRUE))
       /\ UNCHANGED <<maxConcurrent, processing, job, started, startOrder, effects, run, calc>>
  ELSE IF ProcessingGet(processing, job, id)
  THEN /\ job' = [job EXCEPT ![id].status = "cancelled"]
       /\ Record(Op("cancelJob", id, TRUE))
       /\ UNCHANGED <<maxConcurrent, queue, processing, pc, started, startOrder,
                      effects, run, calc>>
  ELSE /\ Record(Op("cancelJob", id, FALSE))
       /\ UNCHANGED <<maxConcurrent, queue, processing, job, pc, started, startOrder,
                      effects, run, calc>>

stageStep(id) ==
  \/ processAudioReturns(id)
  \/ primaryThrows(id)
  \/ transcribeReturns(id)
  \/ stageThrows(id)
  \/ saveReturns(id)

Next ==
  \/ addJob
  \/ processQueue
  \/ \E id \in JobIds : processAudioReturns(id)
  \/ \E id \in JobIds : primaryThrows(id)
  \/ \E id \in JobIds : transcribeReturns(id)
  \/ \E id \in JobIds : stageThrows(id)
  \/ \E id \in JobIds : saveReturns(id)
  \/ \E id \in JobIds : cancelJob(id)

Spec == Init /\ [][Next]_vars

\* the same program, observed without the call history
InitLive ==
  /\ \E env \in EnvValues : maxConcurrent = ParseMaxConcurrent(env)
  /\ queue = <<>>
  /\ processing = {}
  /\ job = <<>>
  /\ pc = [id \in JobIds |-> "none"]
  /\ started = [id \in JobIds |-> 0]
  /\ startOrder = <<>>
  /\ lastOp = HistoryOff
  /\ effects = [id \in JobIds |-> <<>>]
  /\ run = NoRun
  /\ calc = NoCalc

\* setInterval fires processQueue every second; every stage call returns or throws
SpecLive ==
  /\ InitLive /\ [][Next]_vars
  /\ WF_vars(processQueue)
  /\ \A id \in JobIds : WF_vars(stageStep(id))

\* ------------------------------------------------------------------ claims
Created == 1..Len(job)

\* C1: the number of jobs in the running set (processing) never exceeds
\* maxConcurrent, whatever calls and pipeline events have happened.
C1_RunningBounded == Cardinality(processing) <= maxConcurrent

\* the running set is full while jobs wait, with maxConcurrent = 2
C1_Witness ==
  /\ maxConcurrent = 2
  /\ Cardinality(processing) = 2
  /\ Len(queue) >= 2

\* C2: with a fair tick and stage calls that return or throw, the scheduler
\* comes to rest again and again, and at every rest each job submitted so far
\* has status completed or failed, unless cancelJob took it out of the queue;
\* so every submitted job that is not cancelled reaches completed or failed.
C2_AllJobsSettle ==
  []<>(\A id \in JobIds :
         /\ pc[id] \in {"none", "dropped", "done"}
         /\ pc[id] = "done" => job[id].status \in {"completed", "failed"})

\* more jobs than slots were submitted and every one of them ran to its end
C2_Witness ==
  /\ Len(job) > maxConcurrent
  /\ \A id \in Created : pc[id] = "done" /\ job[id].status \in {"completed", "failed"}
  /\ \E id \in Created : job[id].status = "completed"
  /\ \E id \in Created : job[id].status = "failed"

\* C3: a job is never in the queue and in the running set at once, it is in
\* the queue at most once, and processJob is invoked for it at most once.
C3_OnePlaceOneStart ==
  /\ Range(queue) \cap processing = {}
  /\ \A i, k \in 1..Len(queue) : queue[i] = queue[k] => i = k
  /\ \A id \in JobIds : started[id] <= 1

\* two processQueue calls are in flight (each awaits its job) while a job waits
C3_Witness ==
  /\ Cardinality(processing) >= 2
  /\ Len(queue) >= 1
  /\ \A id \in processing : started[id] = 1

\* C4: jobs start in submission order (ids count submissions): the start order
\* is increasing, and no job is still waiting in the queue once a job
\* submitted after it has been started.
C4_FifoStart ==
  /\ \A i, k \in 1..Len(startOrder) : i < k => startOrder[i] < startOrder[k]
  /\ \A a, b \in JobIds : (a < b /\ started[b] > 0) => pc[a] # "queued"

\* three jobs were started one after the other while a fourth was still waiting
C4_Witness ==
  /\ Len(startOrder) >= 3
  /\ Len(queue) >= 1

\* C5 as stated: right after a tick has dequeued, the queue is empty or the
\* running set holds exactly maxConcurrent jobs.
C5_TickFillsRunningSet ==
  [][lastOp'.op = "processQueue" =>
       (queue' = <<>> \/ Cardinality(processing') = maxConcurrent)]_vars

\* C5 amended: a tick starts at most one job -- if the running set has room
\* and the queue is not empty it moves exactly the head of the queue into the
\* running set, otherwise it changes neither.
C5_TickStartsOne ==
  [][lastOp'.op = "processQueue" =>
       IF Cardinality(processing) < maxConcurrent /\ queue # <<>>
       THEN /\ queue' = Tail(queue)
            /\ processing' = processing \cup {Head(queue)}
            /\ Cardinality(processing') = Cardinality(processing) + 1
            /\ lastOp' = Op("processQueue", Head(queue), TRUE)
       ELSE /\ UNCHANGED <<queue, processing>>
            /\ lastOp'.ret = FALSE]_vars

\* a tick has started one job and left the running set with room and jobs waiting
C5_Witness ==
  /\ lastOp.op = "processQueue" /\ lastOp.ret
  /\ Len(queue) >= 1
  /\ Cardinality(processing) < maxConcurrent

\* C6: cancelJob on a job in the queue returns true and removes that job only,
\* keeping the order of the others; a job removed this way is never put in
\* the queue or the running set again and is never started.
C6_CancelQueued ==
  [][\A id \in JobIds :
       /\ (lastOp'.op = "cancelJob" /\ lastOp'.id = id /\ id \in Range(queue)) =>
            /\ lastOp'.ret = TRUE
            /\ queue' = SelectSeq(queue, LAMBDA x : x # id)
            /\ processing' = processing
       /\ pc[id] = "dropped" =>
            /\ id \notin Range(queue') \cup processing'
            /\ started'[id] = 0]_vars

\* cancelJob has just taken a job out of the middle of the queue
C6_Witness ==
  /\ lastOp.op = "cancelJob" /\ lastOp.ret
  /\ pc[lastOp.id] = "dropped"
  /\ \E a, b \in Range(queue) : a < lastOp.id /\ lastOp.id < b

\* C7 as stated: a job that cancelJob took out of the queue has status cancelled.
C7_QueuedCancelMarksCancelled ==
  \A id \in Created : pc[id] = "dropped" => job[id].status = "cancelled"

\* C8 as stated: once cancelJob has marked a running job, no stage of that job
\* goes from pending to in_progress any more and its status stays cancelled.
C8_CancelStopsPipeline ==
  [][\A id \in Created :
       job[id].status = "cancelled" =>
         /\ job'[id].status = "cancelled"
         /\ \A s \in StageNames :
              job[id].stages[s] = "pending" => job'[id].stages[s] = "pending"]_vars

\* C9: cancelJob on a job that is completed or failed, or on an id no job has,
\* returns false and leaves the queue, the running set and every job as they were.
C9_CancelFinished ==
  [][\A id \in JobIds :
       (/\ lastOp'.op = "cancelJob" /\ lastOp'.id = id
        /\ (id \notin Created \/ job[id].status \in {"completed", "failed"})) =>
         /\ lastOp'.ret = FALSE
         /\ UNCHANGED <<queue, processing, job>>]_vars

\* cancelJob has just returned false for a completed job while others run and wait
C9_Witness ==
  /\ lastOp.op = "cancelJob" /\ ~lastOp.ret
  /\ lastOp.id \in Created /\ job[lastOp.id].status = "completed"
  /\ processing # {} /\ queue # <<>>

\* C10 as stated: a status of completed, failed or cancelled never changes again.
C10_TerminalAbsorbing ==
  [][\A id \in Created :
       job[id].status \in Terminal => job'[id].status = job[id].status]_vars

\* ------------------------------------------------- claims C11, C16 .. C20
Events(id) == {effects[id][i].ev : i \in 1..Len(effects[id])}

\* GET /progress/:jobId: the processing list of getQueueStatus, then the queue
progressLookup(id) ==
  IF id \in processing THEN "processing"
  ELSE IF FindIndex(queue, id) # 0 THEN "queued"
  ELSE "not_found"

\* C11 as stated: a job for which cancelJob returned true (taken out of the
\* queue, or marked while running) never gets an error and no job-failed event.
C11_CancelledNoError ==
  [][\A id \in Created :
       (job[id].status = "cancelled" \/ pc[id] = "dropped") =>
         /\ job'[id].error = "none"
         /\ "job-failed" \notin {effects'[id][i].ev : i \in 1..Len(effects'[id])}]_vars

\* C16: a job whose pipeline ended with the transcription stage still in
\* progress (the primary call and the whisper fallback both threw) is failed,
\* and job.error and the one job-failed event carry the fallback's message.
C16_SecondErrorRecorded ==
  \A id \in Created :
    (pc[id] = "done" /\ job[id].stages["transcription"] = "in_progress") =>
      /\ job[id].status = "failed"
      /\ job[id].error = ErrFallback /\ job[id].error # ErrPrimary
      /\ effects[id] = <<Effect("job-failed", ErrFallback)>>

\* both provider calls of a job have thrown
C16_Witness ==
  \E id \in Created :
    /\ pc[id] = "done" /\ job[id].stages["transcription"] = "in_progress"
    /\ job[id].status = "failed"

\* C17: the step in which a stage's throw reaches processQueue (job-failed is
\* emitted) sets status failed and records the message, takes the job out of
\* the running set, which then has room, and leaves it out of the queue; a
\* failed job stays failed, out of both, and is not started again.
C17_FailureFreesSlot ==
  [][\A id \in Created :
       /\ ("job-failed" \notin Events(id) /\ Len(effects'[id]) > Len(effects[id])
           /\ effects'[id][Len(effects'[id])].ev = "job-failed") =>
            /\ id \in processing
            /\ job'[id].status = "failed"
            /\ job'[id].error # "none"
            /\ job'[id].error = effects'[id][Len(effects'[id])].error
            /\ processing' = processing \ {id}
            /\ Cardinality(processing') < maxConcurrent
            /\ id \notin Range(queue')
       /\ job[id].status = "failed" =>
            /\ job'[id].status = "failed" /\ job'[id].error = job[id].error
            /\ id \notin processing' \cup Range(queue')
            /\ started'[id] = started[id]]_vars

\* a job has failed and the tick after it has started a job that was waiting
C17_Witness ==
  /\ \E id \in Created : job[id].status = "failed" /\ job[id].error # "none"
  /\ lastOp.op = "processQueue" /\ lastOp.ret
  /\ Cardinality(processing) = maxConcurrent
  /\ Len(job) > maxConcurrent

\* C18 as stated: a throw of the diarization stage does not fail the job, so
\* no job is failed with diarization as the stage in progress.
C18_DiarizationNotFatal ==
  \A id \in Created :
    job[id].status = "failed" => job[id].stages["diarization"] # "in_progress"

\* C19: a job is completed, and job-completed emitted, only with the
\* transcription file written before; a job whose pipeline ended with
\* finalization in progress (saveTranscription threw) is failed and has no
\* job-completed event.
C19_CompletedOnlyAfterSave ==
  \A id \in Created :
    /\ (job[id].status = "completed" \/ "job-completed" \in Events(id)) =>
         \E i \in 1..Len(effects[id]) :
           /\ effects[id][i].ev = "saved"
           /\ \A k \in 1..Len(effects[id]) : effects[id][k].ev = "job-completed" => i < k
    /\ (pc[id] = "done" /\ job[id].stages["finalization"] = "in_progress") =>
         /\ job[id].status = "failed"
         /\ "job-completed" \notin Events(id)
         /\ "saved" \notin Events(id)

\* one job was saved and completed, the save of another one threw
C19_Witness ==
  /\ \E id \in Created :
       job[id].status = "completed" /\ effects[id][Len(effects[id])].ev = "job-completed"
  /\ \E id \in Created :
       pc[id] = "done" /\ job[id].stages["finalization"] = "in_progress"

\* C20 as stated: the status lookup finds every job addJob has created, at every time.
C20_LookupFindsJob ==
  \A id \in Created : progressLookup(id) # "not_found"

\* ---------------------------------------------- one job inside processJob
\* job.speechService: the three services of this.speechServices, or any other string
Providers == {"whisper", "google", "azure"}
Services == Providers \cup {"other"}

\* the order of the stages in processJob
StageOrder == <<"processing", "transcription", "diarization", "finalization">>

\* updateJobProgress: const stageWeights = {...}
stageWeights_Heavy ==
  [upload |-> 10, processing |-> 10, transcription |-> 70, diarization |-> 15,
   finalization |-> 5]
stageWeights ==
  [upload |-> 10, processing |-> 10, transcription |-> 60, diarization |-> 15,
   finalization |-> 5]

\* updateJobProgress: totalProgress, summed over Object.keys(job.stages), and
\* Math.round of it; the stage progress values here are whole numbers
totalProgressTimes100(st) ==
  st["upload"].progress * stageWeights["upload"]
  + st["processing"].progress * stageWeights["processing"]
  + st["transcription"].progress * stageWeights["transcription"]
  + st["diarization"].progress * stageWeights["diarization"]
  + st["finalization"].progress * stageWeights["finalization"]
MathRound100(n) == (n + 50) \div 100

\* updateJobProgress(job, stage, status, progress) on the job followed, with
\* its 'job-progress' notification; `last` is the last notification emitted
updateRun(r, stage, st, p) ==
  LET stages2 == [r.stages EXCEPT ![stage] = [status |-> st, progress |-> p]] IN
  [r EXCEPT !.stages = stages2,
            !.progress = MathRound100(totalProgressTimes100(stages2)),
            !.last = "job-progress"]

\* getCurrentStage(job): the first stage of Object.entries(job.stages) that is
\* in progress
EntriesOrder == <<"upload", "processing", "transcription", "diarization", "finalization">>
getCurrentStage_Completed(stages) ==
  IF \E i \in 1..Len(EntriesOrder) : stages[EntriesOrder[i]].status = "completed"
  THEN EntriesOrder[CHOOSE i \in 1..Len(EntriesOrder) :
                      /\ stages[EntriesOrder[i]].status = "completed"
                      /\ \A k \in 1..(i - 1) : stages[EntriesOrder[k]].status # "completed"]
  ELSE "unknown"
getCurrentStage(stages) ==
  IF \E i \in 1..Len(EntriesOrder) : stages[EntriesOrder[i]].status = "in_progress"
  THEN EntriesOrder[CHOOSE i \in 1..Len(EntriesOrder) :
                      /\ stages[EntriesOrder[i]].status = "in_progress"
                      /\ \A k \in 1..(i - 1) : stages[EntriesOrder[k]].status # "in_progress"]
  ELSE "unknown"

\* the error the awaited call throws to processQueue's catch
RunError(at) ==
  CASE at = "ffmpeg" -> ErrAudio
    [] at = "fallback" -> FallbackError(ErrPrimary, ErrFallback)
    [] at = "diar" -> ErrDiarization
    [] at = "save" -> ErrSave

\* the terminal notifications: processJob's 'job-completed', handleJobError's
\* 'job-failed'
JobCompleted == [ev |-> "job-completed", result |-> "finalResult"]
JobFailed(error, stage) == [ev |-> "job-failed", error |-> error, stage |-> stage]

\* processAudio: Math.round(progress.percent || 0) of ffmpeg's progress events
FfmpegPercents == {25, 50, 100}

\* the progressCallback values of the providers' transcribe, in call order:
\* whisper (one request; a file above 25 MB in two chunks), google, azure
\* (recognizing events with 0 and 1 recognized segments)
WhisperScript(large) ==
  IF large THEN <<5, 10, 10, 20, 30, 40, 65, 95, 100>>
  ELSE <<5, 10, 20, 30, 80, 100>>
GoogleScript == <<5, 15, 25, 80, 100>>
AzureScript == <<5, 15, 25, 30, 35, 100>>
ProviderScript(p, large) ==
  CASE p = "whisper" -> WhisperScript(large)
    [] p = "google" -> GoogleScript
    [] p = "azure" -> AzureScript

\* SpeakerDiarizationService.process / performSimpleDiarization /
\* extractAudioFeatures: 5, 20, 20 + (i / n) * 40 for each segment (its fraction
\* dropped), 60, 80, 90, 100
DiarizationScript(n) ==
  <<5, 20>> \o [i \in 1..n |-> 20 + ((i - 1) * 40) \div n] \o <<60, 80, 90, 100>>

\* transcribeAudio, catch block: the provider of the second attempt
FallbackProvider_Same(service) == service
FallbackProvider(service) == "whisper"

\* the stage a progress callback writes to, by the call in flight
\* (lines 152, 184-203, 224)
CallbackStage_Copied(at) ==
  CASE at = "ffmpeg" -> "processing"
    [] at \in {"primary", "fallback"} -> "transcription"
    [] at = "diar" -> "transcription"
CallbackStage(at) ==
  CASE at = "ffmpeg" -> "processing"
    [] at \in {"primary", "fallback"} -> "transcription"
    [] at = "diar" -> "diarization"

\* the callbacks the call in flight makes before it returns
RunScript(r) ==
  CASE r.at = "primary" -> ProviderScript(r.calls[Len(r.calls)], r.large)
    [] r.at = "fallback" -> ProviderScript(r.calls[Len(r.calls)], r.large)
    [] r.at = "diar" -> DiarizationScript(r.nseg)
    [] OTHER -> <<>>

\* processJob is entered for job 1, which addJob created and a tick has moved
\* to the running set; `at` is the line of processJob about to run or the call
\* awaited
InitJob ==
  /\ maxConcurrent = DefaultMaxConcurrent
  /\ queue = <<>>
  /\ processing = {1}
  /\ job = <<NewJob>>
  /\ pc = [id \in JobIds |-> IF id = 1 THEN "processing" ELSE "none"]
  /\ started = [id \in JobIds |-> IF id = 1 THEN 1 ELSE 0]
  /\ startOrder = <<1>>
  /\ lastOp = HistoryOff
  /\ effects = [id \in JobIds |-> <<>>]
  /\ calc = NoCalc
  /\ \E service \in Services, large \in BOOLEAN, nseg \in 0..MaxSegments :
       run = [at |-> "101", service |-> service, large |-> large, nseg |-> nseg,
              pos |-> 0, status |-> "queued", progress |-> 0,
              stages |-> [s \in StageNames |->
                            IF s = "upload" THEN [status |-> "completed", progress |-> 100]
                            ELSE [status |-> "pending", progress |-> 0]],
              calls |-> <<>>, primaryThrew |-> FALSE,
              last |-> "job-queued", terminal |-> <<>>, threwAt |-> "none"]

schedulerVars ==
  <<maxConcurrent, queue, processing, job, pc, started, startOrder, lastOp, effects>>

\* the updateJobProgress calls processJob makes itself, one per step, each
\* followed by the code up to the next such call or awaited call
runUpdate ==
  /\ run.at \in {"101", "103", "106", "108", "111", "113", "116", "118"}
  /\ run' =
       CASE run.at = "101" ->
              [updateRun(run, "processing", "in_progress", 0) EXCEPT !.at = "ffmpeg"]
         [] run.at = "103" ->
              [updateRun(run, "processing", "completed", 100) EXCEPT !.at = "106"]
         [] run.at = "106" ->
              \* transcribeAudio: the switch calls the service, or throws for an
              \* unknown one and the catch block calls the fallback
              IF run.service \in Providers
              THEN [updateRun(run, "transcription", "in_progress", 0)
                      EXCEPT !.at = "primary", !.pos = 0, !.calls = <<run.service>>]
              ELSE [updateRun(run, "transcription", "in_progress", 0)
                      EXCEPT !.at = "fallback", !.pos = 0,
                             !.calls = <<FallbackProvider(run.service)>>]
         [] run.at = "108" ->
              [updateRun(run, "transcription", "completed", 100) EXCEPT !.at = "111"]
         [] run.at = "111" ->
              [updateRun(run, "diarization", "in_progress", 0)
                 EXCEPT !.at = "diar", !.pos = 0]
         [] run.at = "113" ->
              [updateRun(run, "diarization", "completed", 100) EXCEPT !.at = "116"]
         [] run.at = "116" ->
              [updateRun(run, "finalization", "in_progress", 0) EXCEPT !.at = "save"]
         [] run.at = "118" ->
              [updateRun(run, "finalization", "completed", 100)
                 EXCEPT !.at = "done", !.status = "completed",
                        !.terminal = Append(@, JobCompleted),
                        !.last = "job-completed"]
  /\ UNCHANGED <<schedulerVars, calc>>

\* a progress callback of the call in flight: ffmpeg's next percentage, or the
\* next value of the provider's or the diarization's list
runCallback ==
  /\ \/ /\ run.at = "ffmpeg"
        /\ \E p \in FfmpegPercents :
             /\ p > run.stages["processing"].progress
             /\ run' = updateRun(run, CallbackStage(run.at), "in_progress", p)
     \/ /\ run.at \in {"primary", "fallback", "diar"}
        /\ run.pos < Len(RunScript(run))
        /\ run' = [updateRun(run, CallbackStage(run.at), "in_progress",
                             RunScript(run)[run.pos + 1])
                     EXCEPT !.pos = run.pos + 1]
  /\ UNCHANGED <<schedulerVars, calc>>

\* the awaited call returns: ffmpeg's 'end', a provider or the diarization
\* after its last callback, saveTranscription
runReturns ==
  /\ \/ run.at \in {"ffmpeg", "save"}
     \/ run.at \in {"primary", "fallback", "diar"} /\ run.pos = Len(RunScript(run))
  /\ run' = [run EXCEPT !.at = CASE run.at = "ffmpeg" -> "103"
                                 [] run.at \in {"primary", "fallback"} -> "108"
                                 [] run.at = "diar" -> "113"
                                 [] run.at = "save" -> "118"]
  /\ UNCHANGED <<schedulerVars, calc>>

\* the awaited call throws: the primary provider's throw starts the fallback
\* call, every other throw reaches handleJobError; `terminal` lists the
\* terminal notifications emitted, threwAt is the call that threw
runThrows ==
  /\ \/ run.at \in {"ffmpeg", "save"}
     \/ run.at \in {"primary", "fallback", "diar"} /\ run.pos < Len(RunScript(run))
  /\ run' = IF run.at = "primary"
            THEN [run EXCEPT !.at = "fallback", !.pos = 0, !.primaryThrew = TRUE,
                             !.calls = Append(@, FallbackProvider(run.service))]
            ELSE [run EXCEPT !.at = "done", !.status = "failed",
                             !.threwAt = run.at,
                             !.terminal = Append(@, JobFailed(RunError(run.at),
                                                              getCurrentStage(run.stages))),
                             !.last = "job-failed"]
  /\ UNCHANGED <<schedulerVars, calc>>

NextJob ==
  \/ runUpdate
  \/ runCallback
  \/ runReturns
  \/ runThrows

SpecJob == InitJob /\ [][NextJob]_vars

\* ---------------------------------------------------- claims C12 .. C15
StageStatus(i) == run.stages[StageOrder[i]].status

\* C12: a stage is in progress or completed only when every earlier stage is
\* completed, at most one stage is in progress, and a completed stage stays
\* completed, progress callbacks included.
C12_StagesInOrder ==
  /\ [](/\ \A i \in 1..4 : StageStatus(i) # "pending" =>
              \A k \in 1..(i - 1) : StageStatus(k) = "completed"
        /\ \A i, k \in 1..4 :
              (StageStatus(i) = "in_progress" /\ StageStatus(k) = "in_progress") => i = k)
  /\ [][\A s \in StageNames :
          run.stages[s].status = "completed" => run'.stages[s].status = "completed"]_vars

\* the diarization has made callbacks after a transcription that needed the fallback
C12_Witness ==
  /\ run.at = "diar" /\ run.pos >= 3
  /\ run.primaryThrew
  /\ run.stages["transcription"].status = "completed"
  /\ run.stages["diarization"].status = "in_progress"

\* C13: the stage weights sum to 100 and, with stage progress reported within
\* 0..100, job.progress (the overallProgress emitted) is within 0..100.
C13_ProgressInRange ==
  /\ stageWeights["upload"] + stageWeights["processing"] + stageWeights["transcription"]
       + stageWeights["diarization"] + stageWeights["finalization"] = 100
  /\ \A s \in StageNames : run.stages[s].progress \in 0..100
  /\ run.progress \in 0..100

\* the job is completed with every stage at 100 and job.progress 100
C13_Witness ==
  /\ run.at = "done" /\ run.status = "completed"
  /\ run.progress = 100

\* C14 as stated: job.progress never goes down from one updateJobProgress to the next.
C14_ProgressMonotone ==
  [][run'.progress >= run.progress]_vars

\* C15: transcribeAudio calls at most two providers; a second call is made
\* exactly when the first attempt threw, and it goes to whisper.
C15_OneFallback ==
  /\ Len(run.calls) <= 2
  /\ \A i \in 1..Len(run.calls) : run.calls[i] \in Providers
  /\ run.primaryThrew <=> Len(run.calls) = 2
  /\ Len(run.calls) = 2 => run.calls = <<run.service, "whisper">>
  /\ (run.service \notin Providers /\ run.calls # <<>>) => run.calls = <<"whisper">>

\* google threw, the whisper fallback was called and the pipeline ended
C15_Witness ==
  /\ run.at = "done"
  /\ run.calls = <<"google", "whisper">>

\* ------------------------------------ WhisperService.transcribeLargeFile
\* Times are whole milliseconds: the code's seconds, times 1000.

\* const chunkDuration = 20 * 60 (seconds)
chunkDuration == 1200000

\* mergeCloseSegments(segments, maxGap = 1.0) (seconds)
DefaultMaxGap == 1000

Min(a, b) == IF a <= b THEN a ELSE b
Max(a, b) == IF a >= b THEN a ELSE b

\* metadata.format.duration of the sources followed: up to MaxChunks chunks,
\* the last one of 1 ms, half a chunk, 1 ms less than a chunk, a whole chunk
Durations ==
  {k * chunkDuration + d :
     k \in 0..(MaxChunks - 1),
     d \in {1, chunkDuration \div 2, chunkDuration - 1, chunkDuration}}

\* Math.ceil(duration / chunkDuration)
numChunks_Floor(duration) == duration \div chunkDuration
numChunks(duration) == (duration + chunkDuration - 1) \div chunkDuration

\* chunks.push({path, startTime, endTime}) for loop index i (from 0)
Chunk(i, duration) ==
  [startTime |-> i * chunkDuration,
   endTime |-> Min(i * chunkDuration + chunkDuration, duration)]

\* a segment and a word of a provider result (formatWhisperResponse); text is
\* the list of the pieces joined with ' '
Word(id, start, end) == [id |-> id, start |-> start, end |-> end]
Segment(id, start, end, text, words) ==
  [id |-> id, start |-> start, end |-> end, text |-> text, words |-> words]

\* results this.transcribe(chunk.path) returns for a chunk of length len:
\* no segment; one segment; two segments that meet; two segments with a gap
\* above maxGap or, in a short chunk, one inside the other; two that overlap
ChunkResults(len) ==
  LET h == len \div 2
      q == len \div 4 IN
  { <<>>,
    <<Segment(0, 0, len, <<"a">>, <<Word(0, 0, h), Word(1, h, len)>>)>>,
    <<Segment(0, 0, h, <<"a">>, <<Word(0, 0, h)>>),
      Segment(1, h, len, <<"b">>, <<Word(0, h, len)>>)>>,
    <<Segment(0, 0, q, <<"a">>, <<>>),
      Segment(1, h, len, <<"b">>, <<Word(0, h, len)>>)>>,
    <<Segment(0, 0, len, <<"a">>, <<Word(0, 0, len)>>),
      Segment(1, h, len, <<"b">>, <<>>)>> }

\* transcribeLargeFile, "Adjust timestamps": one segment of a chunk result,
\* shifted, given the next segment id and the next word id
AdjustSegment_Twice(segment, startTime, id, wordId) ==
  [segment EXCEPT
     !.start = @ + startTime,
     !.end = @ + startTime,
     !.id = id,
     !.words = [w \in 1..Len(segment.words) |->
                  [segment.words[w] EXCEPT !.start = @ + startTime + startTime,
                                           !.end = @ + startTime + startTime,
                                           !.id = wordId + w - 1]]]
AdjustSegment(segment, startTime, id, wordId) ==
  [segment EXCEPT
     !.start = @ + startTime,
     !.end = @ + startTime,
     !.id = id,
     !.words = [w \in 1..Len(segment.words) |->
                  [segment.words[w] EXCEPT !.start = @ + startTime,
                                           !.end = @ + startTime,
                                           !.id = wordId + w - 1]]]

\* chunkResult.segments.forEach(...): allSegments and wordId after the
\* segments of one chunk result from position n on; acc = <<allSegments, wordId>>
RECURSIVE AdjustAll(_, _, _, _)
AdjustAll(segments, n, startTime, acc) ==
  IF n > Len(segments) THEN acc
  ELSE LET adjusted == AdjustSegment(segments[n], startTime, Len(acc[1]), acc[2]) IN
       AdjustAll(segments, n + 1, startTime,
                 <<Append(acc[1], adjusted), acc[2] + Len(adjusted.words)>>)

\* mergeCloseSegments: the condition of the if in the loop
CloseEnough_Strict(current, previous, maxGap) == current.start - previous.end < maxGap
CloseEnough(current, previous, maxGap) == current.start - previous.end <= maxGap

\* mergeCloseSegments: the loop from index i (from 1 in the code) on
RECURSIVE mergeLoop(_, _, _, _)
mergeLoop(segments, i, merged, maxGap) ==
  IF i > Len(segments) THEN merged
  ELSE LET current == segments[i]
           previous == merged[Len(merged)] IN
       IF CloseEnough(current, previous, maxGap)
       THEN mergeLoop(segments, i + 1,
              [merged EXCEPT ![Len(merged)] =
                 [previous EXCEPT !.end = current.end,
                                  !.text = @ \o current.text,
                                  !.words = @ \o current.words]],
              maxGap)
       ELSE mergeLoop(segments, i + 1, Append(merged, current), maxGap)

\* mergeCloseSegments(segments, maxGap), with the re-indexing at its end
mergeCloseSegments(segments, maxGap) ==
  IF segments = <<>> THEN segments
  ELSE LET merged == mergeLoop(segments, 2, <<segments[1]>>, maxGap) IN
       [n \in 1..Len(merged) |-> [merged[n] EXCEPT !.id = n - 1]]

\* the catch block: fs.unlinkSync for every chunk pushed so far
UnlinkChunks(files, chunks) == files \ (0..(Len(chunks) - 1))

\* transcribeLargeFile is called; files is the set of chunk files (by loop
\* index) in the temp directory, results the chunk results as returned
InitLarge ==
  /\ maxConcurrent = DefaultMaxConcurrent
  /\ queue = <<>>
  /\ processing = {}
  /\ job = <<>>
  /\ pc = [id \in JobIds |-> "none"]
  /\ started = [id \in JobIds |-> 0]
  /\ startOrder = <<>>
  /\ lastOp = HistoryOff
  /\ effects = [id \in JobIds |-> <<>>]
  /\ run = NoRun
  /\ \E duration \in Durations :
       calc = [fn |-> "transcribeLargeFile", at |-> "probe", duration |-> duration,
               i |-> 0, chunks |-> <<>>, files |-> {}, results |-> <<>>,
               allSegments |-> <<>>, wordId |-> 0, result |-> <<>>]

\* ffprobe answers with the duration, or with an error
probe ==
  /\ calc.fn = "transcribeLargeFile" /\ calc.at = "probe"
  /\ \/ calc' = [calc EXCEPT !.at = "create"]
     \/ calc' = [calc EXCEPT !.at = "thrown"]
  /\ UNCHANGED <<schedulerVars, run>>

\* one round of the "Create chunks" loop; ffmpeg ends, or reports an error
\* before or after it has written its output file, and the catch block runs
createChunk ==
  /\ calc.fn = "transcribeLargeFile" /\ calc.at = "create"
  /\ calc.i < numChunks(calc.duration)
  /\ \/ calc' = [calc EXCEPT !.files = @ \cup {calc.i},
                             !.chunks = Append(@, Chunk(calc.i, calc.duration)),
                             !.i = IF calc.i + 1 < numChunks(calc.duration)
                                   THEN calc.i + 1 ELSE 0,
                             !.at = IF calc.i + 1 < numChunks(calc.duration)
                                    THEN "create" ELSE "transcribe"]
     \/ \E written \in BOOLEAN :
          calc' = [calc EXCEPT
                     !.files = UnlinkChunks(IF written THEN @ \cup {calc.i} ELSE @,
                                            calc.chunks),
                     !.at = "thrown"]
  /\ UNCHANGED <<schedulerVars, run>>

\* one round of the "Transcribe each chunk" loop; this.transcribe returns a
\* result (how it gets it is not followed) or throws and the catch block runs
transcribeChunk ==
  /\ calc.fn = "transcribeLargeFile" /\ calc.at = "transcribe"
  /\ calc.i < Len(calc.chunks)
  /\ LET chunk == calc.chunks[calc.i + 1] IN
     \/ \E chunkResult \in ChunkResults(chunk.endTime - chunk.startTime) :
          LET acc == AdjustAll(chunkResult, 1, chunk.startTime,
                               <<calc.allSegments, calc.wordId>>) IN
          calc' = [calc EXCEPT !.results = Append(@, chunkResult),
                               !.allSegments = acc[1],
                               !.wordId = acc[2],
                               !.files = @ \ {calc.i},
                               !.i = calc.i + 1,
                               !.at = IF calc.i + 1 < Len(calc.chunks)
                                      THEN "transcribe" ELSE "merge"]
     \/ calc' = [calc EXCEPT !.files = UnlinkChunks(@, calc.chunks), !.at = "thrown"]
  /\ UNCHANGED <<schedulerVars, run>>

\* mergeCloseSegments(allSegments) and the return of the result
returnLarge ==
  /\ calc.fn = "transcribeLargeFile" /\ calc.at = "merge"
  /\ calc' = [calc EXCEPT !.result = mergeCloseSegments(calc.allSegments, DefaultMaxGap),
                          !.at = "returned"]
  /\ UNCHANGED <<schedulerVars, run>>

NextLarge ==
  \/ probe
  \/ createChunk
  \/ transcribeChunk
  \/ returnLarge

SpecLarge == InitLarge /\ [][NextLarge]_vars

\* ---------------------------------------------------- claims C21, C22, C24
\* the number of segments the chunk results before chunk c (from 1) hold
RECURSIVE SegmentsBefore(_)
SegmentsBefore(c) == IF c <= 1 THEN 0 ELSE SegmentsBefore(c - 1) + Len(calc.results[c - 1])

\* the chunk (from 1) whose result held the j-th combined segment
ChunkOf(j) ==
  CHOOSE c \in 1..Len(calc.results) :
    SegmentsBefore(c) < j /\ j <= SegmentsBefore(c) + Len(calc.results[c])

\* C21: once the chunks are created there are exactly ceil(D / C) of them,
\* chunk i runs from i*C to min((i+1)*C, D), and together they cover [0, D]
\* with neither gap nor overlap.
C21_ChunksCoverSource ==
  (calc.fn = "transcribeLargeFile" /\ calc.at \in {"transcribe", "merge", "returned"}) =>
    LET n == Len(calc.chunks)
        D == calc.duration IN
    /\ n * chunkDuration >= D /\ (n - 1) * chunkDuration < D
    /\ \A i \in 1..n :
         /\ calc.chunks[i].startTime = (i - 1) * chunkDuration
         /\ calc.chunks[i].endTime = Min(i * chunkDuration, D)
         /\ calc.chunks[i].startTime < calc.chunks[i].endTime
    /\ calc.chunks[1].startTime = 0
    /\ calc.chunks[n].endTime = D
    /\ \A i \in 1..(n - 1) : calc.chunks[i].endTime = calc.chunks[i + 1].startTime

\* a source of two whole chunks and a shorter third one has been cut
C21_Witness ==
  /\ calc.fn = "transcribeLargeFile" /\ calc.at = "transcribe"
  /\ Len(calc.chunks) = 3
  /\ calc.chunks[3].endTime - calc.chunks[3].startTime < chunkDuration

\* every combined segment and each of its words is the returned one moved by
\* its chunk's startTime, once; ids are 0..n-1; starts are in order
ShiftedOnceInOrder ==
  /\ Len(calc.allSegments) = SegmentsBefore(Len(calc.results) + 1)
  /\ \A j \in 1..Len(calc.allSegments) :
       LET c == ChunkOf(j)
           given == calc.results[c][j - SegmentsBefore(c)]
           offset == calc.chunks[c].startTime
           seg == calc.allSegments[j] IN
       /\ seg.start = given.start + offset
       /\ seg.end = given.end + offset
       /\ seg.id = j - 1
       /\ Len(seg.words) = Len(given.words)
       /\ \A w \in 1..Len(seg.words) :
            /\ seg.words[w].start = given.words[w].start + offset
            /\ seg.words[w].end = given.words[w].end + offset
  /\ \A j, k \in 1..Len(calc.allSegments) :
       j < k => calc.allSegments[j].start <= calc.allSegments[k].start

\* C22 as stated: ... and no two combined segments overlap by more than the
\* merge threshold.
C22_NoOverlapAtAll ==
  calc.fn = "transcribeLargeFile" =>
    /\ ShiftedOnceInOrder
    /\ \A j, k \in 1..Len(calc.allSegments) :
         j < k => calc.allSegments[j].end - calc.allSegments[k].start <= DefaultMaxGap

\* C22, amended: every segment and word of a chunk is shifted once by its
\* chunk's startTime, the combined list is sorted by start with ids 0..n-1,
\* and segments of different chunks never overlap.
C22_ShiftedSortedAcrossChunks ==
  calc.fn = "transcribeLargeFile" =>
    /\ ShiftedOnceInOrder
    /\ \A j, k \in 1..Len(calc.allSegments) :
         (j < k /\ ChunkOf(j) # ChunkOf(k)) =>
           calc.allSegments[j].end <= calc.allSegments[k].start

\* three chunks have been transcribed, the third with segments and words
C22_Witness ==
  /\ calc.fn = "transcribeLargeFile" /\ calc.at = "merge"
  /\ Len(calc.results) = 3
  /\ Len(calc.results[2]) = 2
  /\ Len(calc.results[3]) = 2 /\ calc.results[3][2].words # <<>>
  /\ calc.allSegments[Len(calc.allSegments)].start > 2 * chunkDuration

\* C24 as stated: when transcribeLargeFile has returned or thrown, no chunk
\* file it created is left, and after a throw there is no result.
C24_NoChunkFileLeft ==
  (calc.fn = "transcribeLargeFile" /\ calc.at \in {"returned", "thrown"}) =>
    /\ calc.files = {}
    /\ calc.at = "thrown" => calc.result = <<>>

\* ------------------------- functions of the services, one call at a time
\* all lists of at most n elements of S
SeqUpTo(S, n) == UNION {[1..m -> S] : m \in 0..n}

\* segment boundaries handed to mergeCloseSegments (ms): gaps of 500, 1000
\* and 1500 ms around the default maxGap
MergeTimes == {0, 5000, 5500, 6000, 6500, 7500, 9000}

\* lists of segments in the order of their starts, as transcribeLargeFile
\* builds them; a segment's text is its position in the list
MergeInputs ==
  LET Spans == {sp \in MergeTimes \X MergeTimes : sp[1] < sp[2]} IN
  {[n \in 1..Len(l) |->
      Segment(n - 1, l[n][1], l[n][2], <<n>>, <<Word(0, l[n][1], l[n][2])>>)] :
     l \in {l \in SeqUpTo(Spans, MaxMerge) :
              \A n \in 1..(Len(l) - 1) : l[n][1] <= l[n + 1][1]}}

\* diarized segments handed to smoothSpeakerTransitions: long and sure ones,
\* and short or unsure ones around the limits 2.0 s and 0.8; speakerConfidence
\* is in hundredths
Diarized(speaker, start, end, speakerConfidence) ==
  [speaker |-> speaker, start |-> start, end |-> end,
   speakerConfidence |-> speakerConfidence]
SmoothSegments ==
  { Diarized("speaker_1", 0, 10000, 90), Diarized("speaker_1", 0, 1500, 50),
    Diarized("speaker_2", 0, 1500, 50), Diarized("speaker_2", 0, 1500, 90),
    Diarized("speaker_2", 0, 1500, 80), Diarized("speaker_2", 0, 2000, 50),
    Diarized("speaker_2", 0, 10000, 90), Diarized("speaker_3", 0, 1500, 50) }
SmoothInputs == SeqUpTo(SmoothSegments, MaxSmooth)

\* smoothSpeakerTransitions: the limits 2.0 (seconds) and 0.8, and the
\* confidence 0.6 of a reassigned segment
ShortSegment == 2000
SureConfidence == 80
ReassignedConfidence == 60

\* smoothSpeakerTransitions: the loop from index i on (1 in the code, 2 here),
\* on the list as the earlier rounds have left it
RECURSIVE smoothLoop(_, _)
smoothLoop(segments, i) ==
  IF i > Len(segments) - 1 THEN segments
  ELSE LET current == segments[i]
           previous == segments[i - 1]
           next == segments[i + 1] IN
       IF /\ previous.speaker = next.speaker
          /\ current.speaker # previous.speaker
          /\ current.end - current.start < ShortSegment
          /\ current.speakerConfidence < SureConfidence
       THEN smoothLoop([segments EXCEPT ![i] =
                          [current EXCEPT !.speaker = previous.speaker,
                                          !.speakerConfidence = ReassignedConfidence]],
                       i + 1)
       ELSE smoothLoop(segments, i + 1)
smoothSpeakerTransitions(segments) == smoothLoop(segments, 2)

\* Date.now() - job.createdAt.getTime() (ms) of the calls followed
ElapsedTimes == {0, 1, 499, 500, 1000, 1500, 60000, 90500, 3600000}

\* Math.round(n / d) for n >= 0 and d > 0
MathRoundDiv(n, d) == (2 * n + d) \div (2 * d)

\* estimateTimeRemaining(job): null, or whole seconds
Null == [null |-> TRUE, seconds |-> 0]
Seconds(n) == [null |-> FALSE, seconds |-> n]
estimateTimeRemaining_Total(progress, elapsedTime) ==
  IF progress = 0 THEN Null
  ELSE Seconds(Max(0, MathRoundDiv(elapsedTime * 100, progress * 1000)))
estimateTimeRemaining(progress, elapsedTime) ==
  IF progress = 0 THEN Null
  ELSE Seconds(Max(0, MathRoundDiv(elapsedTime * 100 - elapsedTime * progress,
                                   progress * 1000)))

\* a call of one of the functions with its arguments
InitPure ==
  /\ maxConcurrent = DefaultMaxConcurrent
  /\ queue = <<>>
  /\ processing = {}
  /\ job = <<>>
  /\ pc = [id \in JobIds |-> "none"]
  /\ started = [id \in JobIds |-> 0]
  /\ startOrder = <<>>
  /\ lastOp = HistoryOff
  /\ effects = [id \in JobIds |-> <<>>]
  /\ run = NoRun
  /\ \/ \E segments \in MergeInputs :
          calc = [fn |-> "mergeCloseSegments", done |-> FALSE, in |-> segments,
                  out |-> <<>>]
     \/ \E segments \in SmoothInputs :
          calc = [fn |-> "smoothSpeakerTransitions", done |-> FALSE, in |-> segments,
                  out |-> <<>>]
     \/ \E progress \in 0..100, elapsedTime \in ElapsedTimes :
          calc = [fn |-> "estimateTimeRemaining", done |-> FALSE,
                  in |-> [progress |-> progress, elapsedTime |-> elapsedTime],
                  out |-> Null]

callMerge ==
  /\ calc.fn = "mergeCloseSegments" /\ ~calc.done
  /\ calc' = [calc EXCEPT !.done = TRUE,
                          !.out = mergeCloseSegments(calc.in, DefaultMaxGap)]
  /\ UNCHANGED <<schedulerVars, run>>

callSmooth ==
  /\ calc.fn = "smoothSpeakerTransitions" /\ ~calc.done
  /\ calc' = [calc EXCEPT !.done = TRUE, !.out = smoothSpeakerTransitions(calc.in)]
  /\ UNCHANGED <<schedulerVars, run>>

callEstimate ==
  /\ calc.fn = "estimateTimeRemaining" /\ ~calc.done
  /\ calc' = [calc EXCEPT !.done = TRUE,
                          !.out = estimateTimeRemaining(calc.in.progress,
                                                        calc.in.elapsedTime)]
  /\ UNCHANGED <<schedulerVars, run>>

NextPure ==
  \/ callMerge
  \/ callSmooth
  \/ callEstimate

SpecPure == InitPure /\ [][NextPure]_vars

\* ---------------------------------------------------- claims C23, C27, C29
Merged == calc.fn = "mergeCloseSegments" /\ calc.done

\* the input positions merged into output segment n: its text
First(n) == calc.out[n].text[1]
Last(n) == calc.out[n].text[Len(calc.out[n].text)]

Smoothed == calc.fn = "smoothSpeakerTransitions" /\ calc.done

\* the condition of the claim, on the list handed to the function
ShouldReassign(i) ==
  /\ 1 < i /\ i < Len(calc.in)
  /\ calc.in[i].end - calc.in[i].start < ShortSegment
  /\ calc.in[i - 1].speaker = calc.in[i + 1].speaker
  /\ calc.in[i - 1].speaker # calc.in[i].speaker
  /\ calc.in[i].speakerConfidence < SureConfidence

\* C27 as stated: a segment gets its neighbours' speaker and confidence 0.6
\* exactly when it is shorter than 2 s, its two neighbours share a speaker
\* other than its own and its confidence is below 0.8; every other segment
\* keeps its speaker and confidence.
C27_SmoothExactlyWhen ==
  Smoothed =>
    /\ Len(calc.out) = Len(calc.in)
    /\ \A i \in 1..Len(calc.in) :
         IF ShouldReassign(i)
         THEN /\ calc.out[i].speaker = calc.in[i - 1].speaker
              /\ calc.out[i].speakerConfidence = ReassignedConfidence
         ELSE calc.out[i] = calc.in[i]

Estimated == calc.fn = "estimateTimeRemaining" /\ calc.done

\* C29: the ETA is null exactly when progress is 0; otherwise it is the whole
\* number of seconds nearest to elapsed*100/progress - elapsed, not negative,
\* and 0 at progress 100.
C29_EtaFormula ==
  Estimated =>
    LET p == calc.in.progress
        e == calc.in.elapsedTime
        eta == calc.out IN
    /\ eta.null <=> p = 0
    /\ p > 0 =>
         /\ eta.seconds >= 0
         /\ 2 * (eta.seconds * 1000 * p - (e * 100 - e * p)) <= 1000 * p
         /\ 2 * ((e * 100 - e * p) - eta.seconds * 1000 * p) <= 1000 * p
         /\ p = 100 => eta.seconds = 0

\* a minute and a half into a job that is at 40 %: 136 s to go
C29_Witness ==
  /\ Estimated
  /\ calc.in = [progress |-> 40, elapsedTime |-> 90500]
  /\ calc.out = Seconds(136)

\* ------------------------- SpeakerDiarizationService.findOptimalClusters
\* JavaScript numbers that are not whole are kept as exact fractions <<n, d>>
\* with d > 0 and no common divisor.
Abs(x) == IF x < 0 THEN -x ELSE x
RECURSIVE GCD(_, _)
GCD(a, b) == IF b = 0 THEN a ELSE GCD(b, a % b)
Rat(n, d) ==
  LET sign == IF d < 0 THEN -1 ELSE 1
      g == GCD(Abs(n), Abs(d)) IN
  <<(sign * n) \div g, (sign * d) \div g>>
RAdd(a, b) == Rat(a[1] * b[2] + b[1] * a[2], a[2] * b[2])
RSub(a, b) == Rat(a[1] * b[2] - b[1] * a[2], a[2] * b[2])
RDiv(a, b) == Rat(a[1] * b[2], a[2] * b[1])
RLess(a, b) == a[1] * b[2] < b[1] * a[2]
RAbs(a) == <<Abs(a[1]), a[2]>>
RMax(a, b) == IF RLess(a, b) THEN b ELSE a
RMin(a, b) == IF RLess(b, a) THEN b ELSE a
Zero == <<0, 1>>
One == <<1, 1>>

RECURSIVE SumOver(_, _)
SumOver(S, f) ==
  IF S = {} THEN Zero
  ELSE LET x == CHOOSE x \in S : TRUE IN RAdd(f[x], SumOver(S \ {x}, f))

\* the feature lists followed; the features differ in one key only, so that
\* calculateDistance is the absolute difference of that key: two groups far
\* apart, of two segments each, and of one and two segments, and two groups
\* whose segments alternate
TwoGroups == <<0, 1, 10, 11>>
FeatureLists == {TwoGroups, <<0, 10, 11>>, <<0, 10, 1, 11>>}

\* options.minSpeakers, options.maxSpeakers
SpeakerRanges == {<<2, 4>>}

\* values of min + Math.random() * (max - min) followed: in and next to the
\* first group, and next to the second group
CentroidDraws == {0, 2, 9}

\* kMeansClustering: const maxIterations = 100, const tolerance = 0.001
maxIterations == 100
tolerance == <<1, 1000>>

\* calculateDistance(feature1, feature2)
calculateDistance(x, y) == RAbs(RSub(x, y))

\* findNearestCentroid(feature, centroids): the first index of least distance
findNearestCentroid(x, centroids) ==
  CHOOSE i \in 1..Len(centroids) :
    \A j \in 1..Len(centroids) :
      /\ j < i => RLess(calculateDistance(x, centroids[i]), calculateDistance(x, centroids[j]))
      /\ j > i => ~RLess(calculateDistance(x, centroids[j]), calculateDistance(x, centroids[i]))

\* the features (by position) assigned to cluster c
Members(assignments, c) == {n \in DOMAIN assignments : assignments[n] = c}

\* updateCentroids(features, assignments, k): the mean of a cluster's
\* features, or a fresh random centroid (redraw) for a cluster without any
updateCentroids(features, assignments, k, redraw) ==
  [c \in 1..k |->
     LET members == Members(assignments, c) IN
     IF members = {} THEN <<redraw[c], 1>>
     ELSE RDiv(SumOver(members, [n \in DOMAIN features |-> <<features[n], 1>>]),
               <<Cardinality(members), 1>>)]

\* centroidsConverged(oldCentroids, newCentroids, tolerance)
centroidsConverged(oldCentroids, newCentroids) ==
  \A c \in 1..Len(oldCentroids) :
    ~RLess(tolerance, calculateDistance(oldCentroids[c], newCentroids[c]))

\* kMeansClustering, "Create cluster objects": centroid and features (by
\* position, which is the segmentId) of every cluster; the centroid of a
\* cluster without features is read by nothing followed here and is left out
Unread == <<0, 1>>
Clusters(centroids, assignments) ==
  [c \in 1..Len(centroids) |->
     [centroid |-> IF Members(assignments, c) = {} THEN Unread ELSE centroids[c],
      features |-> Members(assignments, c)]]

\* averageIntraClusterDistance(feature, cluster)
averageIntraClusterDistance(features, n, cluster) ==
  LET others == cluster.features \ {n} IN
  IF Cardinality(cluster.features) <= 1 \/ others = {} THEN Zero
  ELSE RDiv(SumOver(others, [m \in DOMAIN features |->
                               calculateDistance(<<features[n], 1>>, <<features[m], 1>>)]),
            <<Cardinality(others), 1>>)

\* nearestClusterDistance(feature, clusters, excludeClusterIdx): 0 when no
\* other cluster has a feature
nearestClusterDistance(features, n, clusters, c) ==
  LET others == UNION {clusters[o].features : o \in (1..Len(clusters)) \ {c}} IN
  IF others = {} THEN Zero
  ELSE LET m == CHOOSE m \in others :
                  \A o \in others : Abs(features[n] - features[m]) <= Abs(features[n] - features[o])
       IN <<Abs(features[n] - features[m]), 1>>

\* evaluateClusterQuality: the silhouette of one feature, and the mean of all
silhouette(features, n, clusters, c) ==
  LET a == averageIntraClusterDistance(features, n, clusters[c])
      b == nearestClusterDistance(features, n, clusters, c) IN
  IF b # Zero THEN RDiv(RSub(b, a), RMax(a, b)) ELSE Zero
evaluateClusterQuality(clusters, features) ==
  LET cluster == [n \in DOMAIN features |->
                    CHOOSE c \in 1..Len(clusters) : n \in clusters[c].features]
      total == SumOver(DOMAIN features,
                       [n \in DOMAIN features |-> silhouette(features, n, clusters, cluster[n])])
  IN IF Len(features) > 0 THEN RDiv(total, <<Len(features), 1>>) ELSE Zero

\* findOptimalClusters: score > bestScore, bestScore being -Infinity at first
MinusInfinity == [infinite |-> TRUE, value |-> Zero]
Finite(score) == [infinite |-> FALSE, value |-> score]
Better_OrEqual(score, bestScore) == bestScore.infinite \/ ~RLess(score, bestScore.value)
Better(score, bestScore) == bestScore.infinite \/ RLess(bestScore.value, score)

\* calculateSpeakerConfidence(feature, cluster): NaN for 0 / 0, else a number
NaN == [nan |-> TRUE, value |-> Zero]
Number(x) == [nan |-> FALSE, value |-> x]
calculateSpeakerConfidence(features, n, cluster) ==
  LET distanceToCentroid == calculateDistance(<<features[n], 1>>, cluster.centroid)
      avgDistance ==
        RDiv(SumOver(cluster.features,
                     [m \in DOMAIN features |->
                        calculateDistance(<<features[m], 1>>, cluster.centroid)]),
             <<Cardinality(cluster.features), 1>>) IN
  IF avgDistance = Zero
  THEN IF distanceToCentroid = Zero THEN NaN ELSE Number(Zero)
  ELSE Number(RMin(One, RMax(Zero, RSub(One, RDiv(distanceToCentroid,
                                                   RAdd(avgDistance, avgDistance))))))

\* clusterSpeakers is called with numSpeakers 'auto'; `scores` keeps every k
\* evaluated and its score, in order
InitCluster ==
  /\ maxConcurrent = DefaultMaxConcurrent
  /\ queue = <<>>
  /\ processing = {}
  /\ job = <<>>
  /\ pc = [id \in JobIds |-> "none"]
  /\ started = [id \in JobIds |-> 0]
  /\ startOrder = <<>>
  /\ lastOp = HistoryOff
  /\ effects = [id \in JobIds |-> <<>>]
  /\ run = NoRun
  /\ \E features \in FeatureLists, range \in SpeakerRanges :
       calc = [fn |-> "findOptimalClusters", features |-> features,
               minK |-> range[1], maxK |-> range[2],
               at |-> "initialize", k |-> range[1], iter |-> 0,
               centroids |-> <<>>, assignments |-> <<>>,
               bestScore |-> MinusInfinity, bestClusters |-> <<>>,
               scores |-> <<>>, confidence |-> <<>>,
               segments |-> <<>>, speakers |-> <<>>]

\* kMeansClustering(features, k) up to its loop: initializeCentroids
initializeCentroids ==
  /\ calc.fn = "findOptimalClusters" /\ calc.at = "initialize"
  /\ \E draws \in [1..calc.k -> CentroidDraws] :
       calc' = [calc EXCEPT !.centroids = [c \in 1..calc.k |-> <<draws[c], 1>>],
                            !.assignments = [n \in DOMAIN calc.features |-> 0],
                            !.iter = 0,
                            !.at = "iterate"]
  /\ UNCHANGED <<schedulerVars, run>>

\* one round of the loop of kMeansClustering
iterate ==
  /\ calc.fn = "findOptimalClusters" /\ calc.at = "iterate"
  /\ LET assignments == [n \in DOMAIN calc.features |->
                           findNearestCentroid(<<calc.features[n], 1>>, calc.centroids)]
         changed == assignments # calc.assignments
         empty == {c \in 1..calc.k : Members(assignments, c) = {}} IN
     \E draws \in [empty -> CentroidDraws] :
       LET newCentroids ==
             updateCentroids(calc.features, assignments, calc.k,
                             [c \in 1..calc.k |-> IF c \in empty THEN draws[c] ELSE 0]) IN
       IF ~changed \/ centroidsConverged(calc.centroids, newCentroids)
          \/ calc.iter + 1 >= maxIterations
       THEN calc' = [calc EXCEPT !.assignments = assignments,
                                 !.centroids =
                                   IF ~changed \/ centroidsConverged(calc.centroids, newCentroids)
                                   THEN @ ELSE newCentroids,
                                 !.at = "evaluate"]
       ELSE calc' = [calc EXCEPT !.assignments = assignments,
                                 !.centroids = newCentroids,
                                 !.iter = @ + 1]
  /\ UNCHANGED <<schedulerVars, run>>

\* the rest of one round of findOptimalClusters: the cluster objects, their
\* score, the comparison with the best score, and k++
evaluate ==
  /\ calc.fn = "findOptimalClusters" /\ calc.at = "evaluate"
  /\ LET clusters == Clusters(calc.centroids, calc.assignments)
         score == evaluateClusterQuality(clusters, calc.features)
         better == Better(score, calc.bestScore) IN
     calc' = [calc EXCEPT
                !.scores = Append(@, [k |-> calc.k, score |-> score]),
                !.bestScore = IF better THEN Finite(score) ELSE @,
                !.bestClusters = IF better THEN clusters ELSE @,
                !.k = @ + 1,
                !.centroids = <<>>,
                !.assignments = <<>>,
                !.iter = 0,
                !.at = IF calc.k + 1 <= calc.maxK THEN "initialize" ELSE "assign"]
  /\ UNCHANGED <<schedulerVars, run>>

\* `speaker_${clusterIdx + 1}`, `speaker_${index + 1}`, `speaker_${speaker}`
SpeakerLabel(speaker) == <<"speaker_", speaker>>

\* speaker: null
NullSpeaker == <<>>

\* the lengths (ms) of the segments followed: all short or all long, the
\* features differing in one key that is not the duration
SegmentLengths == {1500, 3000}

\* transcriptionResult.segments: one segment per feature, its id the
\* feature's segmentId, one after the other
SegmentsOf(features, len) ==
  [n \in DOMAIN features |-> [id |-> n, start |-> (n - 1) * len, end |-> n * len]]

\* speakerConfidence in hundredths as smoothSpeakerTransitions compares it,
\* rounded down; the comparison NaN < 0.8 is false, so NaN is carried as the
\* least value that is not below that limit
Hundredths(confidence) ==
  IF confidence.nan THEN SureConfidence
  ELSE (confidence.value[1] * 100) \div confidence.value[2]

\* assignSpeakersToSegments before the smoothing: every segment starts with
\* speaker null and confidence 0; clusters.forEach writes the label of each
\* cluster into the segments found by its features' segmentId, a later
\* cluster overwriting an earlier one
LabelSegments(segments, clusters, confidence) ==
  [n \in DOMAIN segments |->
     LET holding == {c \in 1..Len(clusters) : segments[n].id \in clusters[c].features} IN
     IF holding = {}
     THEN Diarized(NullSpeaker, segments[n].start, segments[n].end, 0)
     ELSE LET c == CHOOSE c \in holding : \A d \in holding : d <= c IN
          Diarized(SpeakerLabel(c), segments[n].start, segments[n].end,
                   Hundredths(confidence[c][n]))]

\* generateSpeakerProfiles: one profile per cluster, its id and the number of
\* diarized segments that carry the id
generateSpeakerProfiles_NonEmpty(clusters, diarizedSegments) ==
  [c \in 1..Len(clusters) |->
     [id |-> SpeakerLabel(c),
      segments |-> Max(1, Cardinality({n \in DOMAIN diarizedSegments :
                                         diarizedSegments[n].speaker = SpeakerLabel(c)}))]]
generateSpeakerProfiles(clusters, diarizedSegments) ==
  [c \in 1..Len(clusters) |->
     [id |-> SpeakerLabel(c),
      segments |-> Cardinality({n \in DOMAIN diarizedSegments :
                                  diarizedSegments[n].speaker = SpeakerLabel(c)})]]

\* findOptimalClusters returns bestClusters (never null here, minK <= maxK);
\* the rest of performSimpleDiarization: assignSpeakersToSegments labels the
\* segments, computes every speakerConfidence and smooths the transitions,
\* generateSpeakerProfiles counts the segments of every cluster's speaker
assignSpeakers ==
  /\ calc.fn = "findOptimalClusters" /\ calc.at = "assign"
  /\ \E len \in SegmentLengths :
       LET clusters == calc.bestClusters
           confidence ==
             [c \in 1..Len(clusters) |->
                [n \in DOMAIN calc.features |->
                   IF n \in clusters[c].features
                   THEN calculateSpeakerConfidence(calc.features, n, clusters[c])
                   ELSE NaN]]
           labelled == LabelSegments(SegmentsOf(calc.features, len), clusters, confidence)
           diarizedSegments == smoothSpeakerTransitions(labelled) IN
       calc' = [calc EXCEPT
                  !.confidence =
                    [n \in DOMAIN calc.features |->
                       LET c == CHOOSE c \in 1..Len(clusters) : n \in clusters[c].features IN
                       confidence[c][n]],
                  !.segments = diarizedSegments,
                  !.speakers = generateSpeakerProfiles(clusters, diarizedSegments),
                  !.at = "returned"]
  /\ UNCHANGED <<schedulerVars, run>>

NextCluster ==
  \/ initializeCentroids
  \/ iterate
  \/ evaluate
  \/ assignSpeakers

SpecCluster == InitCluster /\ [][NextCluster]_vars

\* ---------------------------------------------------- claims C25, C26, C28
Clustered == calc.fn = "findOptimalClusters" /\ calc.at \in {"assign", "returned"}

\* C25: every k from minSpeakers to maxSpeakers is evaluated once, in order,
\* and the clustering returned is that of the smallest k whose score is the
\* largest of all the scores.
C25_SmallestBestK ==
  Clustered =>
    /\ Len(calc.scores) = calc.maxK - calc.minK + 1
    /\ \A i \in 1..Len(calc.scores) : calc.scores[i].k = calc.minK + i - 1
    /\ \E i \in 1..Len(calc.scores) :
         /\ \A j \in 1..Len(calc.scores) :
              /\ ~RLess(calc.scores[i].score, calc.scores[j].score)
              /\ j < i => RLess(calc.scores[j].score, calc.scores[i].score)
         /\ calc.bestScore = Finite(calc.scores[i].score)
         /\ Len(calc.bestClusters) = calc.scores[i].k

\* k = 3 scored more than k = 2, k = 4 as much as k = 3, and k = 3 is returned
C25_Witness ==
  /\ Clustered
  /\ RLess(calc.scores[1].score, calc.scores[2].score)
  /\ calc.scores[3].score = calc.scores[2].score
  /\ Len(calc.bestClusters) = 3

\* C26 as stated: for two groups far apart, minSpeakers 2 and maxSpeakers 4,
\* the clustering returned has k = 2 and its clusters are the two groups,
\* whatever the initial centroids.
C26_TwoGroupsFound ==
  (Clustered /\ calc.features = TwoGroups /\ calc.minK = 2 /\ calc.maxK = 4) =>
    /\ Len(calc.bestClusters) = 2
    /\ {calc.bestClusters[c].features : c \in 1..2} = {{1, 2}, {3, 4}}

\* C28 as stated: every speakerConfidence is a number from 0 to 1.
C28_ConfidenceDefined ==
  (calc.fn = "findOptimalClusters" /\ calc.at = "returned") =>
    \A n \in DOMAIN calc.confidence :
      /\ ~calc.confidence[n].nan
      /\ ~RLess(calc.confidence[n].value, Zero)
      /\ ~RLess(One, calc.confidence[n].value)

\* ------------------------------------------------------------- claim C30
\* C30: a job in its pipeline has emitted no terminal notification; a job
\* whose pipeline has ended has emitted exactly one: 'job-completed' with the
\* result when it completed, 'job-failed' with the error and the stage of the
\* call that threw when it failed; the terminal notification is the last one.
C30_OneTerminalNotification ==
  run.at # "off" =>
    /\ run.at # "done" => run.terminal = <<>>
    /\ run.at = "done" =>
         /\ Len(run.terminal) = 1
         /\ run.last = run.terminal[1].ev
         /\ run.status = "completed" => run.terminal[1] = JobCompleted
         /\ run.status = "failed" =>
              /\ run.terminal[1].ev = "job-failed"
              /\ run.terminal[1].error = RunError(run.threwAt)
              /\ run.terminal[1].stage =
                   (CASE run.threwAt = "ffmpeg" -> "processing"
                      [] run.threwAt = "fallback" -> "transcription"
                      [] run.threwAt = "diar" -> "diarization"
                      [] run.threwAt = "save" -> "finalization")
         /\ run.status \in {"completed", "failed"}

\* the diarization threw after progress callbacks and 'job-failed' names it
C30_Witness ==
  /\ run.at = "done" /\ run.status = "failed"
  /\ run.threwAt = "diar"
  /\ run.stages["diarization"].progress > 0
  /\ run.terminal = <<JobFailed(ErrDiarization, "diarization")>>

\* ------------------------------------------------------------- claim C33
\* C33: a job's status field reflects where the job is: it is 'queued'
\* exactly while the job is in the queue and 'running' exactly while the job
\* is in the running set (processing).
C33_StatusReflectsPlace ==
  \A id \in Created :
    /\ job[id].status = "queued" <=> id \in Range(queue)
    /\ job[id].status = "running" <=> id \in processing

\* ====================================================================
\* The provider adapters that build segments from a word list:
\* GoogleSpeechService.formatGoogleResponse (googleSpeechService.js) and
\* mapAssemblyToResult (assemblyai.ts). Google's times are objects
\* {seconds, nanos}; the model keeps times in milliseconds.
\* ====================================================================
MaxWords == 3

\* timeToSeconds: parseInt(seconds) + nanos / 1000000000
timeToSeconds(timeObj) == timeObj.seconds * 1000 + timeObj.nanos \div 1000000

\* the gap (2.0 s) above which formatGoogleResponse opens a new segment
GoogleGap == 2000

\* word.speakerTag || 1; speakerTag 0 stands for a word without speakerTag
TagSpeaker(word) == IF word.speakerTag = 0 THEN 1 ELSE word.speakerTag

\* finalizeSegment; text is the list of the words' texts that the code joins
\* and hands to formatIndonesianText
finalizeSegment_DropLast(segment, id) ==
  [id |-> id, start |-> segment.start, end |-> segment.end,
   text |-> [n \in 1..Len(segment.words) |-> segment.words[n].text],
   speaker |-> segment.speaker, confidence |-> segment.confidence,
   words |-> SubSeq(segment.words, 1, Len(segment.words) - 1)]
finalizeSegment(segment, id) ==
  [id |-> id, start |-> segment.start, end |-> segment.end,
   text |-> [n \in 1..Len(segment.words) |-> segment.words[n].text],
   speaker |-> segment.speaker, confidence |-> segment.confidence,
   words |-> segment.words]

\* the for loop over one result's words from index i (from 1); currentSegment
\* is <<>> for null and <<segment>> else; speakerTag 0 stands for a word
\* without speakerTag
RECURSIVE groupWords(_, _, _, _)
groupWords(words, confidence, i, st) ==
  IF i > Len(words) THEN st
  ELSE
    LET word == words[i]
        speaker == TagSpeaker(word)
        startTime == timeToSeconds(word.startTime)
        endTime == timeToSeconds(word.endTime)
        cur == st.currentSegment
        opens == \/ cur = <<>>
                 \/ speaker # st.currentSpeaker
                 \/ /\ Len(cur[1].words) > 0
                    /\ startTime - cur[1].words[Len(cur[1].words)].end > GoogleGap
        closes == opens /\ cur # <<>>
        segment == IF opens
                   THEN [start |-> startTime, end |-> endTime, words |-> <<>>,
                         speaker |-> SpeakerLabel(speaker), confidence |-> confidence]
                   ELSE cur[1]
        formattedWord == [id |-> Len(st.allWords), text |-> word.word,
                          start |-> startTime, end |-> endTime,
                          confidence |-> confidence]
    IN groupWords(words, confidence, i + 1,
         [segments |-> IF closes
                       THEN Append(st.segments, finalizeSegment(cur[1], st.segmentId))
                       ELSE st.segments,
          allWords |-> Append(st.allWords, formattedWord),
          segmentId |-> IF closes THEN st.segmentId + 1 ELSE st.segmentId,
          currentSegment |-> <<[segment EXCEPT !.words = Append(@, formattedWord),
                                               !.end = endTime]>>,
          currentSpeaker |-> IF opens THEN speaker ELSE st.currentSpeaker])

\* the for loop over response.results from index r (from 1): a result without
\* a first alternative is skipped; currentSegment and currentSpeaker are
\* declared inside the loop body, the last open segment is pushed after it
RECURSIVE groupResults(_, _, _)
groupResults(results, r, st) ==
  IF r > Len(results) THEN st
  ELSE
    IF Len(results[r].alternatives) = 0 THEN groupResults(results, r + 1, st)
    ELSE
      LET alternative == results[r].alternatives[1]
          after == groupWords(alternative.words, alternative.confidence, 1,
                     [st EXCEPT !.currentSegment = <<>>, !.currentSpeaker = 0])
      IN groupResults(results, r + 1,
           IF after.currentSegment # <<>>
           THEN [after EXCEPT
                   !.segments = Append(@, finalizeSegment(after.currentSegment[1],
                                                          after.segmentId)),
                   !.segmentId = @ + 1]
           ELSE after)

Ends(segments) == {segments[n].end : n \in 1..Len(segments)}

formatGoogleResponse(response) ==
  LET st == groupResults(response.results, 1,
              [segments |-> <<>>, allWords |-> <<>>, segmentId |-> 0,
               currentSegment |-> <<>>, currentSpeaker |-> 0]) IN
  [duration |-> IF Len(st.segments) > 0
                THEN CHOOSE e \in Ends(st.segments) : \A o \in Ends(st.segments) : o <= e
                ELSE 0,
   segments |-> st.segments,
   words |-> st.allWords]

\* the window (30 s, in ms as AssemblyAI gives its times) of the word fallback
thirtySec == 30000

\* a segment of mapAssemblyToResult; nanoid() gives it an id of its own, here
\* its position in the list
AssemblySegment(id, start, end, speaker, words) ==
  [id |-> id, start |-> start, end |-> end, speaker |-> speaker,
   text |-> [n \in 1..Len(words) |-> words[n].text], words |-> words]

\* WordInfo: Math.round of the provider's integer milliseconds
WordInfo(w) == [start |-> w.start, end |-> w.end, text |-> w.text]

\* the for loop over aai.words from index i (from 1)
RECURSIVE bucketWords(_, _, _)
bucketWords(words, i, st) ==
  IF i > Len(words) THEN st
  ELSE
    LET wi == WordInfo(words[i])
        flush == wi.start - st.bucketStart > thirtySec /\ Len(st.bucket) > 0
    IN bucketWords(words, i + 1,
         [segments |-> IF flush
                       THEN Append(st.segments,
                              AssemblySegment(Len(st.segments), st.bucket[1].start,
                                              st.bucket[Len(st.bucket)].end,
                                              "Speaker 1", st.bucket))
                       ELSE st.segments,
          bucket |-> IF flush THEN <<wi>> ELSE Append(st.bucket, wi),
          bucketStart |-> IF flush THEN wi.start ELSE st.bucketStart])

\* mapAssemblyToResult: one segment per utterance when there are utterances,
\* else the words in windows of 30 s
mapAssemblyToResult(aai) ==
  IF Len(aai.utterances) > 0
  THEN [segments |->
          [n \in 1..Len(aai.utterances) |->
             LET u == aai.utterances[n]
                 words == [k \in 1..Len(u.words) |-> WordInfo(u.words[k])]
             IN AssemblySegment(n - 1, u.start, u.end, u.speaker, words)]]
  ELSE
    LET st == bucketWords(aai.words, 1,
                [segments |-> <<>>, bucket |-> <<>>,
                 bucketStart |-> IF Len(aai.words) > 0 THEN aai.words[1].start ELSE 0])
    IN [segments |-> IF Len(st.bucket) > 0
                     THEN Append(st.segments,
                            AssemblySegment(Len(st.segments), st.bucket[1].start,
                                            st.bucket[Len(st.bucket)].end,
                                            "Speaker 1", st.bucket))
                     ELSE st.segments]

\* the times of Google's words: 0 s, 0.5 s, 2.5 s (2.0 s after 0.5 s), 3 s, 6 s
GoogleTimes ==
  {[seconds |-> 0, nanos |-> 0], [seconds |-> 0, nanos |-> 500000000],
   [seconds |-> 2, nanos |-> 500000000], [seconds |-> 3, nanos |-> 0],
   [seconds |-> 6, nanos |-> 0]}

\* speakerTag of a word: none (0), 1 or 2
SpeakerTags == {0, 1, 2}

\* word lists as a provider returns them: in time order, a word ends after it
\* starts and the next word starts no earlier than the one before it ends;
\* a word's text is its position in the list
GoogleWordLists ==
  LET Spans == {sp \in GoogleTimes \X GoogleTimes \X SpeakerTags :
                  timeToSeconds(sp[1]) < timeToSeconds(sp[2])} IN
  {[n \in 1..Len(l) |-> [word |-> n, startTime |-> l[n][1], endTime |-> l[n][2],
                         speakerTag |-> l[n][3]]] :
     l \in {l \in SeqUpTo(Spans, MaxWords) :
              \A n \in 1..(Len(l) - 1) :
                timeToSeconds(l[n][2]) <= timeToSeconds(l[n + 1][1])}}

\* responses: the words in one result, or cut into two results, or with a
\* result that has no alternative in between
GoogleResponses ==
  UNION {
    {[results |->
        <<[alternatives |-> <<[words |-> SubSeq(l, 1, cut), confidence |-> 90]>>]>>
        \o (IF empty THEN <<[alternatives |-> <<>>]>> ELSE <<>>)
        \o (IF cut < Len(l)
            THEN <<[alternatives |->
                      <<[words |-> SubSeq(l, cut + 1, Len(l)), confidence |-> 80]>>]>>
            ELSE <<>>)] : cut \in 0..Len(l), empty \in BOOLEAN} :
    l \in GoogleWordLists}

\* AssemblyAI's word times (ms) around the 30 s window
AssemblyTimes == {0, 20000, 30000, 31000, 62000}

AssemblyWordLists ==
  LET Spans == {sp \in AssemblyTimes \X AssemblyTimes : sp[1] < sp[2]} IN
  {[n \in 1..Len(l) |-> [start |-> l[n][1], end |-> l[n][2], text |-> n]] :
     l \in {l \in SeqUpTo(Spans, MaxWords) :
              \A n \in 1..(Len(l) - 1) : l[n][2] <= l[n + 1][1]}}

\* transcripts without utterances, and with the words as utterances of one
\* word each
AssemblyTranscripts ==
  {[utterances |-> IF labelled
                   THEN [n \in 1..Len(l) |->
                           [start |-> l[n].start, end |-> l[n].end, speaker |-> "A",
                            words |-> <<l[n]>>]]
                   ELSE <<>>,
    words |-> l] : l \in AssemblyWordLists, labelled \in BOOLEAN}

InitAdapters ==
  /\ maxConcurrent = DefaultMaxConcurrent
  /\ queue = <<>>
  /\ processing = {}
  /\ job = <<>>
  /\ pc = [id \in JobIds |-> "none"]
  /\ started = [id \in JobIds |-> 0]
  /\ startOrder = <<>>
  /\ lastOp = HistoryOff
  /\ effects = [id \in JobIds |-> <<>>]
  /\ run = NoRun
  /\ \/ \E response \in GoogleResponses :
          calc = [fn |-> "formatGoogleResponse", done |-> FALSE, in |-> response,
                  out |-> <<>>]
     \/ \E aai \in AssemblyTranscripts :
          calc = [fn |-> "mapAssemblyToResult", done |-> FALSE, in |-> aai,
                  out |-> <<>>]

callFormatGoogle ==
  /\ calc.fn = "formatGoogleResponse" /\ ~calc.done
  /\ calc' = [calc EXCEPT !.done = TRUE, !.out = formatGoogleResponse(calc.in)]
  /\ UNCHANGED <<schedulerVars, run>>

callMapAssembly ==
  /\ calc.fn = "mapAssemblyToResult" /\ ~calc.done
  /\ calc' = [calc EXCEPT !.done = TRUE, !.out = mapAssemblyToResult(calc.in)]
  /\ UNCHANGED <<schedulerVars, run>>

NextAdapters ==
  \/ callFormatGoogle
  \/ callMapAssembly

SpecAdapters == InitAdapters /\ [][NextAdapters]_vars

\* ------------------------------------------------------------- claim C31
RECURSIVE Flatten(_, _)
\* the words of the segments from index n on, in order
Flatten(segments, n) ==
  IF n > Len(segments) THEN <<>> ELSE segments[n].words \o Flatten(segments, n + 1)

RECURSIVE InputWords(_, _)
\* the words of a Google response's results from index r on, in order
InputWords(results, r) ==
  IF r > Len(results) THEN <<>>
  ELSE (IF Len(results[r].alternatives) = 0 THEN <<>>
        ELSE results[r].alternatives[1].words) \o InputWords(results, r + 1)

\* every segment has a word, starts with its first and ends with its last word
SpansItsWords(segments) ==
  \A n \in 1..Len(segments) :
    /\ Len(segments[n].words) > 0
    /\ segments[n].start = segments[n].words[1].start
    /\ segments[n].end = segments[n].words[Len(segments[n].words)].end

GoogleFormatted == calc.fn = "formatGoogleResponse" /\ calc.done
AssemblyMapped ==
  calc.fn = "mapAssemblyToResult" /\ calc.done /\ Len(calc.in.utterances) = 0

\* C31: the segments an adapter builds from a word list partition the words:
\* the segments' word lists, one after the other, are the input words in input
\* order, no segment is empty, and each segment starts at its first word's
\* start and ends at its last word's end; formatGoogleResponse puts two
\* neighbours with different speakers or more than 2 s apart into different
\* segments, mapAssemblyToResult without utterances keeps every word of a
\* segment within 30 s of the segment's first word and opens the next segment
\* with a word that is later than that.
C31_SegmentsPartitionWords ==
  /\ GoogleFormatted =>
       LET input == InputWords(calc.in.results, 1)
           words == Flatten(calc.out.segments, 1) IN
       /\ Len(words) = Len(input)
       /\ \A k \in 1..Len(input) :
            /\ words[k].text = input[k].word
            /\ words[k].start = timeToSeconds(input[k].startTime)
            /\ words[k].end = timeToSeconds(input[k].endTime)
       /\ SpansItsWords(calc.out.segments)
       /\ \A n \in 1..Len(calc.out.segments) :
            LET w == calc.out.segments[n].words IN
            \A k \in 1..(Len(w) - 1) :
              /\ w[k + 1].start - w[k].end <= GoogleGap
              /\ TagSpeaker(input[w[k].text]) = TagSpeaker(input[w[k + 1].text])
  /\ AssemblyMapped =>
       LET words == Flatten(calc.out.segments, 1) IN
       /\ Len(words) = Len(calc.in.words)
       /\ \A k \in 1..Len(words) :
            /\ words[k].text = calc.in.words[k].text
            /\ words[k].start = calc.in.words[k].start
            /\ words[k].end = calc.in.words[k].end
       /\ SpansItsWords(calc.out.segments)
       /\ \A n \in 1..Len(calc.out.segments) :
            LET w == calc.out.segments[n].words IN
            /\ \A k \in 1..Len(w) : w[k].start - w[1].start <= thirtySec
            /\ n < Len(calc.out.segments) =>
                 calc.out.segments[n + 1].start - w[1].start > thirtySec

\* Google words 0-0.5 s and 2.5-3 s of one speaker stay together (gap 2.0 s)
\* and a third word of another speaker opens the second segment
C31_Witness ==
  /\ GoogleFormatted
  /\ Len(calc.in.results) = 1
  /\ Len(calc.out.segments) = 2
  /\ Len(calc.out.segments[1].words) = 2
  /\ calc.out.segments[1].start = 0 /\ calc.out.segments[1].end = 3000
  /\ calc.out.segments[1].words[2].start - calc.out.segments[1].words[1].end = GoogleGap

\* ====================================================================
\* The file-backed queue of part_004 without Redis: router.post('/') writes
\* data/jobs/<id>.json with status 'queued', the setInterval callback of
\* initQueue takes the first queued file of the directory and awaits
\* processTranscription. calc holds the job files (files, a function from
\* the names that exist), the names in creation order, the callbacks that
\* are suspended at an await (inflight), how often each job was taken
\* (claims), and the finished jobs a later tick has read (scanned).
\* ====================================================================
MaxPosts == 3

\* randomUUID(): the ids a job file can get; readdirSync lists names in
\* ascending order, which is unrelated to the order of creation
UUIDs == 1..MaxPosts

\* router.post('/'): the job written to <id>.json
QueuedJob ==
  [status |-> "queued", stage |-> "processing_audio", progressPercent |-> 10,
   result |-> FALSE, error |-> "none"]

\* updateJob: read the file, return when there is none, apply the mutator and
\* write the file back; every mutator assigns fields, given here as a record
\* of the fields it assigns
updateJob(files, jobId, assigned) ==
  IF jobId \notin DOMAIN files THEN files
  ELSE [files EXCEPT ![jobId] =
          [field \in DOMAIN @ |->
             IF field \in DOMAIN assigned THEN assigned[field] ELSE @[field]]]

\* setStage of processTranscription
setStage(files, jobId, stage, progressPercent) ==
  updateJob(files, jobId, [stage |-> stage, progressPercent |-> progressPercent])

\* the tick's test job && job.status === 'queued'
Claimable_NotCompleted(j) == j.status # "completed"
Claimable(j) == j.status = "queued"

\* the tick's writes before it calls processTranscription
Claim(files, f) ==
  [files EXCEPT ![f].status = "running", ![f].stage = "processing_audio"]

\* the first file of the listing the tick takes
FirstClaimable(files) ==
  LET queued == {f \in DOMAIN files : Claimable(files[f])} IN
  CHOOSE f \in queued : \A g \in queued : f <= g

\* the end of the try block: stages 85 and 95, then the completed job
Complete(files, jobId) ==
  updateJob(setStage(setStage(files, jobId, "speaker_detection", 85),
                     jobId, "finalizing", 95),
            jobId,
            [status |-> "completed", stage |-> "completed", progressPercent |-> 100,
             result |-> TRUE])

\* the catch block of processTranscription
Fail(files, jobId, message) ==
  updateJob(files, jobId, [status |-> "failed", stage |-> "failed", error |-> message])

\* the awaits of processTranscription in order
Awaits == <<"uploadToAssemblyAI", "startTranscription", "pollTranscription">>

FileTerminal == {"completed", "failed"}

InitFileQueue ==
  /\ maxConcurrent = DefaultMaxConcurrent
  /\ queue = <<>>
  /\ processing = {}
  /\ job = <<>>
  /\ pc = [id \in JobIds |-> "none"]
  /\ started = [id \in JobIds |-> 0]
  /\ startOrder = <<>>
  /\ lastOp = HistoryOff
  /\ effects = [id \in JobIds |-> <<>>]
  /\ run = NoRun
  /\ calc = [fn |-> "initQueue", files |-> <<>>, createdOrder |-> <<>>,
             inflight |-> {}, claims |-> [f \in UUIDs |-> 0], scanned |-> {}]

\* router.post('/'): writeJson of a new job file
post ==
  /\ calc.fn = "initQueue"
  /\ Len(calc.createdOrder) < MaxPosts
  /\ \E id \in UUIDs \ DOMAIN calc.files :
       calc' = [calc EXCEPT !.files = [f \in DOMAIN calc.files \cup {id} |->
                                         IF f = id THEN QueuedJob ELSE calc.files[f]],
                            !.createdOrder = Append(@, id)]
  /\ UNCHANGED <<schedulerVars, run>>

\* one run of the setInterval callback up to its first await: it reads the
\* files in the order of the listing, takes the first queued one, and
\* processTranscription sets stage 15 and awaits the upload; with no queued
\* file the callback returns
tick ==
  /\ calc.fn = "initQueue"
  /\ IF \E f \in DOMAIN calc.files : Claimable(calc.files[f])
     THEN LET f == FirstClaimable(calc.files) IN
          calc' = [calc EXCEPT
                     !.files = setStage(Claim(calc.files, f), f, "processing_audio", 15),
                     !.inflight = @ \cup {[job |-> f, at |-> 1,
                                           call |-> calc.claims[f] + 1]},
                     !.claims[f] = @ + 1,
                     !.scanned = @ \cup {g \in DOMAIN calc.files :
                                           g < f /\ calc.files[g].status \in FileTerminal}]
     ELSE calc' = [calc EXCEPT
                     !.scanned = @ \cup {g \in DOMAIN calc.files :
                                           calc.files[g].status \in FileTerminal}]
  /\ UNCHANGED <<schedulerVars, run>>

\* the awaited call of a suspended callback resolves: the next setStage, or
\* after pollTranscription the rest of the try block
awaitReturns ==
  /\ calc.fn = "initQueue"
  /\ \E t \in calc.inflight :
       calc' =
         IF t.at = 1
         THEN [calc EXCEPT !.files = setStage(@, t.job, "transcribing", 35),
                           !.inflight = (@ \ {t}) \cup {[t EXCEPT !.at = 2]}]
         ELSE IF t.at = 2
         THEN [calc EXCEPT !.files = setStage(@, t.job, "transcribing", 60),
                           !.inflight = (@ \ {t}) \cup {[t EXCEPT !.at = 3]}]
         ELSE [calc EXCEPT !.files = Complete(@, t.job),
                           !.inflight = @ \ {t}]
  /\ UNCHANGED <<schedulerVars, run>>

\* the awaited call rejects: the catch block stores 'failed' and rethrows,
\* the tick's own catch swallows the error
awaitThrows ==
  /\ calc.fn = "initQueue"
  /\ \E t \in calc.inflight :
       calc' = [calc EXCEPT !.files = Fail(@, t.job, Awaits[t.at]),
                            !.inflight = @ \ {t}]
  /\ UNCHANGED <<schedulerVars, run>>

NextFileQueue ==
  \/ post
  \/ tick
  \/ awaitReturns
  \/ awaitThrows

SpecFileQueue == InitFileQueue /\ [][NextFileQueue]_vars

\* ------------------------------------------------------------- claim C32
\* a is earlier than b in the order of creation
CreatedBefore(a, b) ==
  \E i, k \in 1..Len(calc.createdOrder) :
    i < k /\ calc.createdOrder[i] = a /\ calc.createdOrder[k] = b

\* C32: queued jobs are processed in FIFO order: no job has been started by
\* a tick while a job created before it is still queued.
C32_FifoTicks ==
  calc.fn = "initQueue" =>
    \A a, b \in DOMAIN calc.files :
      CreatedBefore(a, b) /\ calc.files[a].status = "queued"
        => calc.files[b].status = "queued"

\* ------------------------------------------------------------- claim C37
\* C37: at most one job is being processed at any time: no tick starts a job
\* while the job of an earlier tick has not reached completed or failed.
C37_OneAtATime ==
  calc.fn = "initQueue" =>
    /\ Cardinality(calc.inflight) <= 1
    /\ Cardinality({f \in DOMAIN calc.files : calc.files[f].status = "running"}) <= 1

\* ------------------------------------------------------------- claim C38
\* C38: each job is taken by at most one tick and processed at most once even
\* when ticks overlap, and once a job's stored status is 'completed' or
\* 'failed' no later tick or stage update changes it.
C38_ClaimedOnceTerminalKept ==
  [][calc.fn = "initQueue" =>
       /\ \A f \in UUIDs : calc'.claims[f] <= 1
       /\ \A f \in DOMAIN calc.files :
            calc.files[f].status \in FileTerminal
              => calc'.files[f].status = calc.files[f].status]_vars

\* two callbacks are suspended at the same time, and a tick has read a job
\* that had completed before it
C38_Witness ==
  /\ calc.fn = "initQueue"
  /\ Cardinality(calc.inflight) >= 2
  /\ \E f \in calc.scanned : calc.files[f].status = "completed"

\* ====================================================================
\* WhisperService.transcribe with its recursion: transcribe calls
\* transcribeLargeFile for a file above 25 MB, transcribeLargeFile cuts the
\* file into WAV chunks and calls transcribe for each chunk. calc.stack holds
\* the transcribe calls that have not returned, the innermost last.
\* ====================================================================
MaxDepth == 3

\* fileSizeInMB > 25 with fileSizeInMB = stats.size / (1024 * 1024)
LargeFileBytes == 26214400
IsLargeFile(file) == file.size > LargeFileBytes

\* a chunk file: audioChannels(1).audioFrequency(16000).format('wav') writes
\* 16-bit samples, 32 bytes per millisecond
WavBytesPerMs == 32
ChunkFile(chunk) ==
  [duration |-> chunk.endTime - chunk.startTime,
   size |-> (chunk.endTime - chunk.startTime) * WavBytesPerMs]

\* the uploads followed: 5 min, 10 min, 819 s, 820 s, 15 min, 20 min, 25 min,
\* 30 min, 40 min and 60 min of audio as 128 kbit/s MP3 (16 bytes/ms), 16 kHz mono WAV (32)
\* or 48 kHz stereo WAV (192)
AudioFiles ==
  {[duration |-> d, size |-> d * r] :
     d \in {300000, 600000, 819000, 820000, 900000, 1200000, 1500000, 1800000,
           2400000, 3600000},
     r \in {16, 32, 192}}

\* a transcribe call: at "transcribe" before the size test, at "provider"
\* awaiting openai.audio.transcriptions.create, at "chunks" inside
\* transcribeLargeFile, where i counts the chunks already transcribed
Frame(file) == [file |-> file, at |-> "transcribe", i |-> 0]

InitTranscribe ==
  /\ maxConcurrent = DefaultMaxConcurrent
  /\ queue = <<>>
  /\ processing = {}
  /\ job = <<>>
  /\ pc = [id \in JobIds |-> "none"]
  /\ started = [id \in JobIds |-> 0]
  /\ startOrder = <<>>
  /\ lastOp = HistoryOff
  /\ effects = [id \in JobIds |-> <<>>]
  /\ run = NoRun
  /\ \E file \in AudioFiles :
       calc = [fn |-> "transcribe", stack |-> <<Frame(file)>>, result |-> "none"]

Top == calc.stack[Len(calc.stack)]
SetTop(stack, frame) == [stack EXCEPT ![Len(stack)] = frame]

\* a call returns to its caller: the caller's loop goes on to the next chunk,
\* the outermost call resolves
Return(stack) ==
  IF Len(stack) = 1 THEN <<>>
  ELSE LET rest == SubSeq(stack, 1, Len(stack) - 1) IN
       SetTop(rest, [rest[Len(rest)] EXCEPT !.i = @ + 1])

\* transcribe up to its await: the size test sends the file to
\* transcribeLargeFile (ffprobe and the chunks are made) or to the provider
sizeTest ==
  /\ calc.fn = "transcribe" /\ calc.stack # <<>>
  /\ Top.at = "transcribe"
  /\ calc' = [calc EXCEPT
                !.stack = SetTop(@, [Top EXCEPT
                                       !.at = IF IsLargeFile(Top.file)
                                              THEN "chunks" ELSE "provider"])]
  /\ UNCHANGED <<schedulerVars, run>>

\* transcribeLargeFile: await this.transcribe(chunk.path) for the next chunk
transcribeNextChunk ==
  /\ calc.fn = "transcribe" /\ calc.stack # <<>>
  /\ Top.at = "chunks" /\ Top.i < numChunks(Top.file.duration)
  /\ Len(calc.stack) < MaxDepth
  /\ calc' = [calc EXCEPT
                !.stack = Append(@, Frame(ChunkFile(Chunk(Top.i, Top.file.duration))))]
  /\ UNCHANGED <<schedulerVars, run>>

\* transcribeLargeFile returns the combined result after the last chunk
largeFileReturns ==
  /\ calc.fn = "transcribe" /\ calc.stack # <<>>
  /\ Top.at = "chunks" /\ Top.i = numChunks(Top.file.duration)
  /\ calc' = [calc EXCEPT !.stack = Return(@),
                          !.result = IF Len(calc.stack) = 1 THEN "combined" ELSE @]
  /\ UNCHANGED <<schedulerVars, run>>

\* the provider call resolves and transcribe returns the formatted result
providerReturns ==
  /\ calc.fn = "transcribe" /\ calc.stack # <<>>
  /\ Top.at = "provider"
  /\ calc' = [calc EXCEPT !.stack = Return(@),
                          !.result = IF Len(calc.stack) = 1 THEN "formatted" ELSE @]
  /\ UNCHANGED <<schedulerVars, run>>

\* the provider call rejects: every catch block on the way out rethrows
providerThrows ==
  /\ calc.fn = "transcribe" /\ calc.stack # <<>>
  /\ Top.at = "provider"
  /\ calc' = [calc EXCEPT !.stack = <<>>, !.result = "provider call failed"]
  /\ UNCHANGED <<schedulerVars, run>>

\* ffprobe or the ffmpeg run of a chunk rejects inside transcribeLargeFile
splitThrows ==
  /\ calc.fn = "transcribe" /\ calc.stack # <<>>
  /\ Top.at = "transcribe" /\ IsLargeFile(Top.file)
  /\ calc' = [calc EXCEPT !.stack = <<>>, !.result = "ffmpeg failed"]
  /\ UNCHANGED <<schedulerVars, run>>

NextTranscribe ==
  \/ sizeTest
  \/ transcribeNextChunk
  \/ largeFileReturns
  \/ providerReturns
  \/ providerThrows
  \/ splitThrows

SpecTranscribe == InitTranscribe /\ [][NextTranscribe]_vars

\* ------------------------------------------------------------- claim C34
\* C34: a chunk that transcribeLargeFile hands to transcribe goes to a single
\* provider call and is not split again: only the outermost transcribe call
\* is ever inside transcribeLargeFile, so the recursion is at most two calls
\* deep and transcribe terminates.
C34_ChunkNotSplitAgain ==
  calc.fn = "transcribe" =>
    /\ Len(calc.stack) <= 2
    /\ \A d \in 2..Len(calc.stack) : calc.stack[d].at # "chunks"

\* ------------------------------------------------------- claims C35, C36
Diarization == calc.fn = "findOptimalClusters" /\ calc.at = "returned"

ProfileIds == {calc.speakers[c].id : c \in 1..Len(calc.speakers)}

RECURSIVE SegmentCount(_)
\* the sum of the segment counts of the first c profiles
SegmentCount(c) == IF c = 0 THEN 0 ELSE SegmentCount(c - 1) + calc.speakers[c].segments

\* C35: after diarization of segments with unique ids every segment carries
\* a speaker label that is not null, the label is the id of one of the
\* returned speaker profiles, and the segment counts of the returned profiles
\* sum to the number of segments.
C35_EverySegmentLabelled ==
  Diarization =>
    /\ Len(calc.segments) = Len(calc.features)
    /\ \A n \in DOMAIN calc.segments :
         /\ calc.segments[n].speaker # NullSpeaker
         /\ calc.segments[n].speaker \in ProfileIds
    /\ SegmentCount(Len(calc.speakers)) = Len(calc.segments)

\* two speakers alternate, A B A B, and the smoothing has given the second
\* segment to the speaker of its neighbours: three segments and one
C35_Witness ==
  /\ Diarization
  /\ Len(calc.segments) = 4 /\ Len(calc.speakers) = 2
  /\ calc.segments[2].speaker = calc.segments[1].speaker
  /\ calc.segments[2].speakerConfidence = ReassignedConfidence
  /\ {calc.speakers[c].segments : c \in 1..2} = {1, 3}

\* C36: every returned speaker profile has at least one segment after the
\* smoothing: the number of returned speakers equals the number of distinct
\* speaker labels on the returned segments.
C36_NoSpeakerWithoutSegment ==
  Diarization =>
    /\ \A c \in 1..Len(calc.speakers) : calc.speakers[c].segments >= 1
    /\ Len(calc.speakers) =
         Cardinality({calc.segments[n].speaker : n \in DOMAIN calc.segments})

\* ====================================================================
\* CleanupService.aggressiveCleanup (cleanupService.js): the run copies
\* this.config, shortens three retention periods, awaits cleanTempFiles,
\* cleanOldFiles and cleanLogFiles, and puts the copy back. The daily cron's
\* optimizeStorage and a manualCleanup both reach it. calc holds this.config,
\* the configuration the constructor made (env), and for each caller its
\* position and its originalConfig.
\* ====================================================================

\* values of an environment variable followed: unset (0), 1 and 48
RetentionEnv == {0, 1, 48}

\* parseInt(process.env.X) || default
ParseRetention(value, default) == IF value = 0 THEN default ELSE value

\* the constructor's this.config
Config(temp, processed) ==
  [tempFileRetentionHours |-> ParseRetention(temp, 24),
   processedFileRetentionDays |-> ParseRetention(processed, 30),
   logFileRetentionDays |-> ParseRetention(0, 7),
   backupRetentionDays |-> ParseRetention(0, 90)]

\* "Reduce retention periods temporarily"
Aggressive(config) ==
  [config EXCEPT !.tempFileRetentionHours = 1,
                 !.processedFileRetentionDays = 7,
                 !.logFileRetentionDays = 1]

\* the callers of aggressiveCleanup that can be in flight together
Callers == {"optimizeStorage", "manualCleanup"}

\* the awaited cleanup tasks in order
CleanupTasks == <<"cleanTempFiles", "cleanOldFiles", "cleanLogFiles">>

\* a caller that is not inside aggressiveCleanup
Idle(config) == [at |-> 0, originalConfig |-> config, failed |-> {}, finished |-> FALSE]

InitCleanup ==
  /\ maxConcurrent = DefaultMaxConcurrent
  /\ queue = <<>>
  /\ processing = {}
  /\ job = <<>>
  /\ pc = [id \in JobIds |-> "none"]
  /\ started = [id \in JobIds |-> 0]
  /\ startOrder = <<>>
  /\ lastOp = HistoryOff
  /\ effects = [id \in JobIds |-> <<>>]
  /\ run = NoRun
  /\ \E temp \in RetentionEnv, processed \in RetentionEnv :
       calc = [fn |-> "aggressiveCleanup",
               env |-> Config(temp, processed),
               config |-> Config(temp, processed),
               runs |-> [r \in Callers |-> Idle(Config(temp, processed))]]

\* aggressiveCleanup up to its first await: originalConfig = {...this.config},
\* the three assignments, and the call of cleanTempFiles
startAggressive(r) ==
  /\ calc.fn = "aggressiveCleanup"
  /\ calc.runs[r].at = 0
  /\ calc' = [calc EXCEPT
                !.runs[r] = [at |-> 1, originalConfig |-> calc.config, failed |-> {},
                             finished |-> FALSE],
                !.config = Aggressive(calc.config)]
  /\ UNCHANGED <<schedulerVars, run>>

\* the awaited cleanup task resolves, having caught and logged its own error
\* when failed; after the last one this.config = originalConfig
cleanupResolves(r, failed) ==
  /\ calc.fn = "aggressiveCleanup"
  /\ calc.runs[r].at \in 1..Len(CleanupTasks)
  /\ LET at == calc.runs[r].at
         failures == IF failed THEN calc.runs[r].failed \cup {CleanupTasks[at]}
                     ELSE calc.runs[r].failed IN
     IF at < Len(CleanupTasks)
     THEN calc' = [calc EXCEPT !.runs[r].at = at + 1, !.runs[r].failed = failures]
     ELSE calc' = [calc EXCEPT !.runs[r].at = 0, !.runs[r].failed = failures,
                               !.runs[r].finished = TRUE,
                               !.config = calc.runs[r].originalConfig]
  /\ UNCHANGED <<schedulerVars, run>>

NextCleanup ==
  \/ \E r \in Callers : startAggressive(r)
  \/ \E r \in Callers : cleanupResolves(r, FALSE)
  \/ \E r \in Callers : cleanupResolves(r, TRUE)

SpecCleanup == InitCleanup /\ [][NextCleanup]_vars

\* ------------------------------------------------------------- claim C39
\* C39: when no aggressiveCleanup run is in flight, this.config equals the
\* values it had before the first run started, whatever the interleaving of
\* the runs and whether or not a cleanup task failed.
C39_ConfigRestored ==
  (calc.fn = "aggressiveCleanup" /\ \A r \in Callers : calc.runs[r].at = 0)
    => calc.config = calc.env
====
